---- MODULE Spec2Model ----
(***************************************************************************)
(* SimpleOS: the virtual file system of src/src/os/apps/SettingsApp.tsx    *)
(* (class VirtualFileSystem), the window manager of                        *)
(* src/src/os/window-manager.ts (useWindowManager), the event bus with the *)
(* settings (classes EventBus and Settings) and the browser and terminal   *)
(* tab stores (src/unnamed/part_005, src/src/stores/terminal-store.ts) as  *)
(* state machines: Spec runs the file system alone, SpecWM the window      *)
(* manager alone, SpecBus the bus and the settings alone, SpecTabs the tab *)
(* stores with their localforage writes alone.                             *)
(*                                                                         *)
(* A JavaScript string is a sequence of one-character strings, so that     *)
(* normalizePath, startsWith, substring, includes, split and join are      *)
(* computed character by character.  File contents are opaque strings.     *)
(* The store is the Map<string, FileMetadata> that getStorage rebuilds and *)
(* setStorage persists: a function from keys to metadata records.  The Map *)
(* insertion order is not kept: ScanUnique and ListNoTies below state that *)
(* no result of the modelled calls depends on it.                          *)
(***************************************************************************)
EXTENDS Integers, Sequences, FiniteSets, TLC

VARIABLES files, clock, last, pre, load, windows, nextZIndex, storage, wlast, wload,
          events, settingsItem, blast,
          tabs, activeTabId, forage, pending, minted, tlast, tload

\* the variables of the virtual file system, of the window manager, of the
\* event bus with the settings, and of the tab stores
vfsVars == <<files, clock, last, pre, load>>
wmVars == <<windows, nextZIndex, storage, wlast, wload>>
busVars == <<events, settingsItem, blast>>
tabVars == <<tabs, activeTabId, forage, pending, minted, tlast, tload>>
vars == <<files, clock, last, pre, load, windows, nextZIndex, storage, wlast, wload,
          events, settingsItem, blast,
          tabs, activeTabId, forage, pending, minted, tlast, tload>>

\* ---------------------------------------------------------------- bounds
MaxEntries == 3
MaxPathLen == 6
MaxClock == 2

\* ---------------------------------------------------------------- inputs
Slash == "/"
Names == {<<"a">>, <<"a", "b">>}
Contents == {"", "hi"}
\* parent folders as callers may spell them: '', '/', 'a', '/a', 'a/', 'ab', 'a/a'
Folders == {<<>>, <<Slash>>, <<"a">>, <<Slash, "a">>, <<"a", Slash>>, <<"a", "b">>,
            <<"a", Slash, "a">>}
NormPaths == Names \cup {p \o <<Slash>> \o n : p \in Names, n \in Names}
RawPaths == NormPaths \cup {<<>>, <<Slash>>}
              \cup {<<Slash>> \o n : n \in Names} \cup {n \o <<Slash>> : n \in Names}

\* ------------------------------------------------------- string helpers
\* String.prototype.startsWith
StartsWith(s, p) == Len(s) >= Len(p) /\ SubSeq(s, 1, Len(p)) = p

\* String.prototype.substring(n)
Substring(s, n) == SubSeq(s, n + 1, Len(s))

\* String.prototype.includes for a one-character needle
Includes(s, c) == \E i \in DOMAIN s : s[i] = c

RECURSIVE StripLeading(_)
StripLeading(s) == IF s # <<>> /\ Head(s) = Slash THEN StripLeading(Tail(s)) ELSE s

RECURSIVE StripTrailing(_)
StripTrailing(s) ==
  IF s # <<>> /\ s[Len(s)] = Slash THEN StripTrailing(SubSeq(s, 1, Len(s) - 1)) ELSE s

\* path.replace(/^\/+|\/+$/g, '')
normalizePath(path) == IF path = <<>> THEN <<>> ELSE StripTrailing(StripLeading(path))

\* String.prototype.split("/"): the segments between separators
RECURSIVE SplitFrom(_, _, _)
SplitFrom(s, i, cur) ==
  IF i > Len(s) THEN <<cur>>
  ELSE IF s[i] = Slash THEN <<cur>> \o SplitFrom(s, i + 1, <<>>)
  ELSE SplitFrom(s, i + 1, Append(cur, s[i]))

Split(s) == SplitFrom(s, 1, <<>>)

\* Array.prototype.join("/")
RECURSIVE Join(_)
Join(parts) ==
  IF parts = <<>> THEN <<>>
  ELSE IF Len(parts) = 1 THEN parts[1]
  ELSE parts[1] \o <<Slash>> \o Join(Tail(parts))

\* String.prototype.localeCompare on lower-case ASCII names
CharRank(c) == CASE c = Slash -> 0 [] c = "a" -> 1 [] c = "b" -> 2 [] OTHER -> 3

RECURSIVE localeCompare(_, _)
localeCompare(a, b) ==
  IF a = <<>> /\ b = <<>> THEN 0
  ELSE IF a = <<>> THEN -1
  ELSE IF b = <<>> THEN 1
  ELSE IF CharRank(Head(a)) < CharRank(Head(b)) THEN -1
  ELSE IF CharRank(Head(a)) > CharRank(Head(b)) THEN 1
  ELSE localeCompare(Tail(a), Tail(b))

\* ---------------------------------------------------------- Map helpers
MapHas(m, k) == k \in DOMAIN m
MapGet(m, k) == m[k]
MapSet(m, k, v) == [x \in DOMAIN m \cup {k} |-> IF x = k THEN v ELSE m[x]]
MapDelete(m, k) == [x \in DOMAIN m \ {k} |-> m[x]]
MapDeleteAll(m, ks) == [x \in DOMAIN m \ ks |-> m[x]]
\* one Map.set per element of es, a set of [key, val] records
MapSetAll(m, es) ==
  [x \in DOMAIN m \cup {e.key : e \in es} |->
     IF \E e \in es : e.key = x THEN (CHOOSE e \in es : e.key = x).val ELSE m[x]]
EmptyMap == <<>>

ContentLength(content) == Len(content)

\* ------------------------------------------------------ VirtualFileSystem
\* the key writeFile and createFolder store under: the parent is normalized
\* only when the raw argument is a non-empty string
fullPathOf(name, folder) ==
  IF folder # <<>> THEN normalizePath(folder) \o <<Slash>> \o name ELSE name

writeFile(m, filename, content, folder, now) ==
  LET fullPath == fullPathOf(filename, folder)
      had == MapHas(m, fullPath)
  IN MapSet(m, fullPath,
            [name |-> filename, path |-> fullPath, content |-> content,
             size |-> ContentLength(content), modified |-> now,
             \* existing?.created || now
             created |-> IF had /\ MapGet(m, fullPath).created # 0
                         THEN MapGet(m, fullPath).created ELSE now,
             isFolder |-> FALSE])

\* threw = TRUE models `throw new Error("Folder already exists")`
createFolder(m, folderName, parentFolder, now) ==
  LET fullPath == fullPathOf(folderName, parentFolder)
  IN IF MapHas(m, fullPath) THEN [files |-> m, threw |-> TRUE]
     ELSE [files |-> MapSet(m, fullPath,
                            [name |-> folderName, path |-> fullPath, content |-> "",
                             size |-> 0, modified |-> now, created |-> now,
                             isFolder |-> TRUE]),
           threw |-> FALSE]

\* the keys the fallback scan of readFile and deleteFile accepts for a path
ScanMatches(m, path) ==
  {filePath \in DOMAIN m : \/ normalizePath(filePath) = normalizePath(path)
                           \/ filePath = normalizePath(path)
                           \/ filePath = path}

\* the pair readFile and deleteFile resolve a path to: the exact match on the
\* normalized path, else the first key the scan accepts
Resolve(m, path) ==
  IF MapHas(m, normalizePath(path)) THEN [found |-> TRUE, key |-> normalizePath(path)]
  ELSE IF ScanMatches(m, path) # {}
  THEN [found |-> TRUE, key |-> CHOOSE k \in ScanMatches(m, path) : TRUE]
  ELSE [found |-> FALSE, key |-> <<>>]

\* isNull = TRUE models the null result
readFile(m, path) ==
  LET r == Resolve(m, path)
  IN IF r.found /\ ~m[r.key].isFolder THEN [isNull |-> FALSE, content |-> m[r.key].content]
     ELSE [isNull |-> TRUE, content |-> ""]

\* a plausible slip: only the folder's own pair is deleted
deleteMatchesSelfOnly(filePath, actualPath) == filePath = actualPath

deleteMatches(filePath, actualPath) ==
  filePath = actualPath \/ StartsWith(filePath, actualPath \o <<Slash>>)

deleteFile(m, path) ==
  LET r == Resolve(m, path)
  IN \* `!file || !actualPath`: an empty key is falsy
     IF ~r.found \/ r.key = <<>> THEN [files |-> m, ret |-> FALSE]
     ELSE LET actualPath == r.key
              file == m[r.key]
          IN IF file.isFolder
             THEN LET toDelete == {filePath \in DOMAIN m : deleteMatches(filePath, actualPath)}
                  IN [files |-> MapDeleteAll(m, toDelete), ret |-> TRUE]
             ELSE [files |-> MapDelete(m, actualPath), ret |-> TRUE]

\* the destination key of moveFile
moveNewPath(normalizedTarget, name) ==
  IF normalizedTarget # <<>> THEN normalizedTarget \o <<Slash>> \o name ELSE name

moveMatches(path, normalizedSource) ==
  path = normalizedSource \/ StartsWith(path, normalizedSource \o <<Slash>>)

\* a plausible slip: the relative path is cut one character short
rekeyShort(path, oldPrefix, newPath) ==
  LET relativePath == IF path = oldPrefix THEN <<>> ELSE Substring(path, Len(oldPrefix) + 2)
  IN IF relativePath # <<>> THEN newPath \o <<Slash>> \o relativePath ELSE newPath

\* the new key of a pair under a moved or renamed folder
rekey(path, oldPrefix, newPath) ==
  LET relativePath == IF path = oldPrefix THEN <<>> ELSE Substring(path, Len(oldPrefix) + 1)
  IN IF relativePath # <<>> THEN newPath \o <<Slash>> \o relativePath ELSE newPath

\* { ...metadata, path: newPath }
moveMeta(metadata, newFilePath) == [metadata EXCEPT !.path = newFilePath]

\* a plausible slip: the destination is not checked
moveBlockedNever(m, newPath) == FALSE

\* `if (files.has(newPath)) return false`
moveBlocked(m, newPath) == MapHas(m, newPath)

moveFile(m, sourcePath, targetFolder) ==
  LET normalizedSource == normalizePath(sourcePath)
      normalizedTarget == normalizePath(targetFolder)
  IN IF ~MapHas(m, normalizedSource) THEN [files |-> m, ret |-> FALSE]
     ELSE LET sourceFile == MapGet(m, normalizedSource)
              newPath == moveNewPath(normalizedTarget, sourceFile.name)
          IN IF moveBlocked(m, newPath) THEN [files |-> m, ret |-> FALSE]
             ELSE IF sourceFile.isFolder
             THEN LET old == {path \in DOMAIN m : moveMatches(path, normalizedSource)}
                      toMove == {[key |-> rekey(path, normalizedSource, newPath),
                                  val |-> moveMeta(m[path],
                                                   rekey(path, normalizedSource, newPath))] :
                                 path \in old}
                  IN [files |-> MapSetAll(MapDeleteAll(m, old), toMove), ret |-> TRUE]
             ELSE [files |-> MapSet(MapDelete(m, normalizedSource), newPath,
                                    moveMeta(sourceFile, newPath)),
                   ret |-> TRUE]

\* a plausible slip: the whole path is replaced by the new name
renameNewPathDropsParent(normalizedPath, newName) == newName

\* split("/"), replace the last part, join("/")
renameNewPath(normalizedPath, newName) ==
  LET pathParts == Split(normalizedPath)
  IN Join([pathParts EXCEPT ![Len(pathParts)] = newName])

renameMatches(filePath, normalizedPath) ==
  filePath = normalizedPath \/ StartsWith(filePath, normalizedPath \o <<Slash>>)

\* { ...metadata, path: np, name: np === newPath ? newName : metadata.name }
renameMeta(metadata, np, newPath, newName) ==
  [metadata EXCEPT !.path = np, !.name = IF np = newPath THEN newName ELSE metadata.name]

renameFile(m, path, newName) ==
  LET normalizedPath == normalizePath(path)
  IN IF ~MapHas(m, normalizedPath) THEN [files |-> m, ret |-> FALSE]
     ELSE LET file == MapGet(m, normalizedPath)
              newPath == renameNewPath(normalizedPath, newName)
          IN IF MapHas(m, newPath) THEN [files |-> m, ret |-> FALSE]
             ELSE IF file.isFolder
             THEN LET old == {filePath \in DOMAIN m : renameMatches(filePath, normalizedPath)}
                      toRename == {[key |-> rekey(filePath, normalizedPath, newPath),
                                    val |-> renameMeta(m[filePath],
                                                       rekey(filePath, normalizedPath, newPath),
                                                       newPath, newName)] :
                                   filePath \in old}
                  IN [files |-> MapSetAll(MapDeleteAll(m, old), toRename), ret |-> TRUE]
             ELSE [files |-> MapSet(MapDelete(m, normalizedPath), newPath,
                                    [file EXCEPT !.path = newPath, !.name = newName]),
                   ret |-> TRUE]

exists(m, path) == MapHas(m, normalizePath(path))

\* a plausible slip: every descendant is listed, not only the direct children
listSelectsDeep(path, normalizedFolder) ==
  IF normalizedFolder = <<>> THEN TRUE
  ELSE StartsWith(path, normalizedFolder \o <<Slash>>)

\* the filter of list: the key is a direct child of the normalized folder
listSelects(path, normalizedFolder) ==
  IF normalizedFolder = <<>> THEN ~Includes(path, Slash)
  ELSE LET prefix == normalizedFolder \o <<Slash>>
       IN StartsWith(path, prefix) /\ ~Includes(Substring(path, Len(prefix)), Slash)

\* a plausible slip: the folder test is dropped from the comparator
listCompareByNameOnly(a, b) == localeCompare(a.name, b.name)

\* the comparator of list: folders first, then by name
listCompare(a, b) ==
  IF a.isFolder /\ ~b.isFolder THEN -1
  ELSE IF ~a.isFolder /\ b.isFolder THEN 1
  ELSE localeCompare(a.name, b.name)

\* Array.prototype.sort with listCompare: the least remaining record first
RECURSIVE SortRecords(_)
SortRecords(S) ==
  IF S = {} THEN <<>>
  ELSE LET x == CHOOSE x \in S : \A y \in S : listCompare(x, y) <= 0
       IN <<x>> \o SortRecords(S \ {x})

list(m, folder) ==
  LET normalizedFolder == normalizePath(folder)
      result == {m[path] : path \in {k \in DOMAIN m : listSelects(k, normalizedFolder)}}
  IN SortRecords(result)

\* Array.from(files.values()), as the set of its elements
getAllFiles(m) == {m[k] : k \in DOMAIN m}

\* a plausible slip: the item is not removed
clearKeepsItem(m) == m

\* localStorage.removeItem: getStorage then returns an empty Map
clear(m) == EmptyMap

\* ------------------------------------------------------- window manager
\* src/src/os/window-manager.ts: the zustand store { windows, nextZIndex } and
\* the localStorage item saveToStorage writes.  A window record holds the
\* fields of WindowState, the component as an opaque handle the store never
\* reads; an optional number that is undefined is Undefined.
Undefined == -1

FirstZIndex == 1000
DefaultX == 100
DefaultY == 100
Stagger == 30
DefaultWidth == 600
DefaultHeight == 400
FallbackX == 100
FallbackY == 100
FallbackWidth == 600
FallbackHeight == 400
FallbackViewportWidth == 1920
FallbackViewportHeight == 1080

\* how many z-indices the callers of one run take
MaxZSteps == 4

WinIds == {"w1", "w2", "w3"}
Titles == {"A", "B"}
\* positions and sizes callers pass to updatePosition, updateSize and openWindow
Positions == {<<0, 0>>, <<40, 50>>}
Sizes == {<<0, 0>>, <<300, 200>>}
\* the options of openWindow: none, a position only, or a full geometry
NoOptions == [x |-> Undefined, y |-> Undefined, width |-> Undefined, height |-> Undefined]
OpenOptions ==
  {NoOptions}
    \cup {[x |-> p[1], y |-> p[2], width |-> Undefined, height |-> Undefined] :
            p \in Positions}
    \cup {[x |-> 0, y |-> 0, width |-> 0, height |-> 0]}
\* window.innerWidth and window.innerHeight, or 1920 x 1080 without a window
Viewports == {<<FallbackViewportWidth, FallbackViewportHeight>>, <<800, 600>>}

\* what the callers of one run do: either they stack three windows opened
\* with default geometry, or they move, resize and maximize two windows, or
\* they do all of it to a single window
WmLoads ==
  {[ids |-> WinIds, titles |-> {"A"}, options |-> {NoOptions}, positions |-> {},
    sizes |-> {}, viewports |-> {<<FallbackViewportWidth, FallbackViewportHeight>>},
    steps |-> MaxZSteps + 1],
   [ids |-> {"w1", "w2"}, titles |-> {"A"}, options |-> {NoOptions},
    positions |-> {<<0, 0>>}, sizes |-> {<<0, 0>>}, viewports |-> {<<800, 600>>},
    steps |-> MaxZSteps - 1],
   [ids |-> {"w1"}, titles |-> Titles, options |-> OpenOptions, positions |-> Positions,
    sizes |-> Sizes, viewports |-> Viewports, steps |-> MaxZSteps]}

\* a ?? b
Coalesce(a, b) == IF a = Undefined THEN b ELSE a

\* windows.find((w) => w.id === id): the index of the first such record, or 0
FindIndex(ws, id) ==
  IF \E i \in DOMAIN ws : ws[i].id = id
  THEN CHOOSE i \in DOMAIN ws : ws[i].id = id /\ \A j \in 1..(i - 1) : ws[j].id # id
  ELSE 0

HasWindow(ws, id) == FindIndex(ws, id) # 0

getWindow(st, id) == st.windows[FindIndex(st.windows, id)]

\* the component openWindow is given, and what JSON holds in its place
Component == "ReactNode"
NoComponent == "null"

\* localStorage.setItem(STORAGE_KEY, JSON.stringify(serialized))
saveToStorage(ws) ==
  LET serialized == [i \in DOMAIN ws |-> [ws[i] EXCEPT !.component = NoComponent]]
  IN [present |-> TRUE, windows |-> serialized]

\* a plausible slip: the list the call started from is saved
setWindowsSavesOld(st, newWindows, bump) ==
  [windows |-> newWindows,
   nextZIndex |-> st.nextZIndex + bump,
   storage |-> saveToStorage(st.windows)]

\* saveToStorage(newWindows), then the state set(...) returns
setWindows(st, newWindows, bump) ==
  [windows |-> newWindows,
   nextZIndex |-> st.nextZIndex + bump,
   storage |-> saveToStorage(newWindows)]

\* a plausible slip: closing a window gives its z-index back to the counter
closeWindowReleases(st, id) ==
  LET newWindows == SelectSeq(st.windows, LAMBDA w : w.id # id)
  IN setWindows(st, newWindows, IF HasWindow(st.windows, id) THEN -1 ELSE 0)

\* a plausible slip: the filter keeps the record it should drop
closeWindowKeepsOnly(st, id) ==
  LET newWindows == SelectSeq(st.windows, LAMBDA w : w.id = id)
  IN setWindows(st, newWindows, 0)

closeWindow(st, id) ==
  LET newWindows == SelectSeq(st.windows, LAMBDA w : w.id # id)
  IN setWindows(st, newWindows, 0)

\* a plausible slip: the counter advances as it does in restoreWindow
minimizeWindowBumps(st, id) ==
  LET newWindows == [i \in DOMAIN st.windows |->
                       IF st.windows[i].id = id
                       THEN [st.windows[i] EXCEPT !.minimized = TRUE]
                       ELSE st.windows[i]]
  IN setWindows(st, newWindows, 1)

minimizeWindow(st, id) ==
  LET newWindows == [i \in DOMAIN st.windows |->
                       IF st.windows[i].id = id
                       THEN [st.windows[i] EXCEPT !.minimized = TRUE]
                       ELSE st.windows[i]]
  IN setWindows(st, newWindows, 0)

\* a plausible slip: the restored window keeps the z-index it had
restoreWindowStale(st, id) ==
  LET newWindows == [i \in DOMAIN st.windows |->
                       IF st.windows[i].id = id
                       THEN [st.windows[i] EXCEPT !.minimized = FALSE]
                       ELSE st.windows[i]]
  IN setWindows(st, newWindows, 1)

\* a plausible slip: the window is raised but stays minimized
restoreWindowOnlyRaises(st, id) ==
  LET newWindows == [i \in DOMAIN st.windows |->
                       IF st.windows[i].id = id
                       THEN [st.windows[i] EXCEPT !.zIndex = st.nextZIndex]
                       ELSE st.windows[i]]
  IN setWindows(st, newWindows, 1)

restoreWindow(st, id) ==
  LET newWindows == [i \in DOMAIN st.windows |->
                       IF st.windows[i].id = id
                       THEN [st.windows[i] EXCEPT !.minimized = FALSE, !.zIndex = st.nextZIndex]
                       ELSE st.windows[i]]
  IN setWindows(st, newWindows, 1)

\* a plausible slip: the record is rewritten with the z-index it had
bringToFrontStale(st, id) == setWindows(st, st.windows, 1)

bringToFront(st, id) ==
  LET newWindows == [i \in DOMAIN st.windows |->
                       IF st.windows[i].id = id
                       THEN [st.windows[i] EXCEPT !.zIndex = st.nextZIndex]
                       ELSE st.windows[i]]
  IN setWindows(st, newWindows, 1)

updatePosition(st, id, x, y) ==
  LET newWindows == [i \in DOMAIN st.windows |->
                       IF st.windows[i].id = id
                       THEN [st.windows[i] EXCEPT !.x = x, !.y = y]
                       ELSE st.windows[i]]
  IN setWindows(st, newWindows, 0)

\* a plausible slip: resizing a maximized window rewrites the saved size
updateSizeResnaps(st, id, width, height) ==
  LET newWindows == [i \in DOMAIN st.windows |->
                       IF st.windows[i].id = id
                       THEN IF st.windows[i].maximized
                            THEN [st.windows[i] EXCEPT !.width = width, !.height = height,
                                                       !.prevWidth = width, !.prevHeight = height]
                            ELSE [st.windows[i] EXCEPT !.width = width, !.height = height]
                       ELSE st.windows[i]]
  IN setWindows(st, newWindows, 0)

updateSize(st, id, width, height) ==
  LET newWindows == [i \in DOMAIN st.windows |->
                       IF st.windows[i].id = id
                       THEN [st.windows[i] EXCEPT !.width = width, !.height = height]
                       ELSE st.windows[i]]
  IN setWindows(st, newWindows, 0)

\* a plausible slip: the snapshot is not cleared when the window is restored
toggledKeepsSnapshot(w, viewportWidth, viewportHeight) ==
  IF w.maximized
  THEN [w EXCEPT !.maximized = FALSE,
                 !.x = Coalesce(w.prevX, FallbackX), !.y = Coalesce(w.prevY, FallbackY),
                 !.width = Coalesce(w.prevWidth, FallbackWidth),
                 !.height = Coalesce(w.prevHeight, FallbackHeight)]
  ELSE [w EXCEPT !.maximized = TRUE,
                 !.prevX = w.x, !.prevY = w.y, !.prevWidth = w.width, !.prevHeight = w.height,
                 !.x = 0, !.y = 0, !.width = viewportWidth, !.height = viewportHeight]

\* a plausible slip: the snapshot is read with || instead of ??
toggledFalsy(w, viewportWidth, viewportHeight) ==
  IF w.maximized
  THEN [w EXCEPT !.maximized = FALSE,
                 !.x = IF w.prevX \in {Undefined, 0} THEN FallbackX ELSE w.prevX,
                 !.y = IF w.prevY \in {Undefined, 0} THEN FallbackY ELSE w.prevY,
                 !.width = IF w.prevWidth \in {Undefined, 0} THEN FallbackWidth ELSE w.prevWidth,
                 !.height = IF w.prevHeight \in {Undefined, 0} THEN FallbackHeight
                            ELSE w.prevHeight,
                 !.prevX = Undefined, !.prevY = Undefined,
                 !.prevWidth = Undefined, !.prevHeight = Undefined]
  ELSE [w EXCEPT !.maximized = TRUE,
                 !.prevX = w.x, !.prevY = w.y, !.prevWidth = w.width, !.prevHeight = w.height,
                 !.x = 0, !.y = 0, !.width = viewportWidth, !.height = viewportHeight]

\* the record toggleMaximize maps the target to
toggled(w, viewportWidth, viewportHeight) ==
  IF w.maximized
  THEN [w EXCEPT !.maximized = FALSE,
                 !.x = Coalesce(w.prevX, FallbackX), !.y = Coalesce(w.prevY, FallbackY),
                 !.width = Coalesce(w.prevWidth, FallbackWidth),
                 !.height = Coalesce(w.prevHeight, FallbackHeight),
                 !.prevX = Undefined, !.prevY = Undefined,
                 !.prevWidth = Undefined, !.prevHeight = Undefined]
  ELSE [w EXCEPT !.maximized = TRUE,
                 !.prevX = w.x, !.prevY = w.y, !.prevWidth = w.width, !.prevHeight = w.height,
                 !.x = 0, !.y = 0, !.width = viewportWidth, !.height = viewportHeight]

toggleMaximize(st, id, viewportWidth, viewportHeight) ==
  LET newWindows == [i \in DOMAIN st.windows |->
                       IF st.windows[i].id = id
                       THEN toggled(st.windows[i], viewportWidth, viewportHeight)
                       ELSE st.windows[i]]
  IN \* `if (!targetWindow) return state`: nothing is saved
     IF ~HasWindow(st.windows, id) THEN st ELSE setWindows(st, newWindows, 0)

\* a plausible slip: the default position does not depend on the window count
newWindowNoStagger(st, id, title, options) ==
  [id |-> id, title |-> title, component |-> Component,
   x |-> Coalesce(options.x, DefaultX),
   y |-> Coalesce(options.y, DefaultY),
   width |-> Coalesce(options.width, DefaultWidth),
   height |-> Coalesce(options.height, DefaultHeight),
   minimized |-> FALSE, maximized |-> FALSE, zIndex |-> st.nextZIndex,
   prevX |-> Undefined, prevY |-> Undefined,
   prevWidth |-> Undefined, prevHeight |-> Undefined]

\* the record openWindow builds for an id that has none
newWindow(st, id, title, options) ==
  [id |-> id, title |-> title, component |-> Component,
   x |-> Coalesce(options.x, DefaultX + Len(st.windows) * Stagger),
   y |-> Coalesce(options.y, DefaultY + Len(st.windows) * Stagger),
   width |-> Coalesce(options.width, DefaultWidth),
   height |-> Coalesce(options.height, DefaultHeight),
   minimized |-> FALSE, maximized |-> FALSE, zIndex |-> st.nextZIndex,
   prevX |-> Undefined, prevY |-> Undefined,
   prevWidth |-> Undefined, prevHeight |-> Undefined]

\* a plausible slip: the existing record is not looked for
openWindowAlwaysNew(st, id, title, options) ==
  LET newWindows == Append(st.windows, newWindow(st, id, title, options))
  IN setWindows(st, newWindows, 1)

\* a plausible slip: an existing record takes the title of the new call
openWindowRetitles(st, id, title, options) ==
  IF HasWindow(st.windows, id)
  THEN LET shown == IF getWindow(st, id).minimized THEN restoreWindow(st, id)
                    ELSE bringToFront(st, id)
           newWindows == [i \in DOMAIN shown.windows |->
                            IF shown.windows[i].id = id
                            THEN [shown.windows[i] EXCEPT !.title = title]
                            ELSE shown.windows[i]]
       IN setWindows(st, newWindows, 1)
  ELSE LET newWindows == Append(st.windows, newWindow(st, id, title, options))
       IN setWindows(st, newWindows, 1)

openWindow(st, id, title, options) ==
  IF HasWindow(st.windows, id)
  THEN IF getWindow(st, id).minimized THEN restoreWindow(st, id) ELSE bringToFront(st, id)
  ELSE LET newWindows == Append(st.windows, newWindow(st, id, title, options))
       IN setWindows(st, newWindows, 1)

\* the Window component renders nothing for a minimized record
\* (`if (windowState.minimized) return null`)
Drawn(w) == ~w.minimized

\* the store after create(): no window, counter 1000, nothing persisted yet
FreshManager ==
  [windows |-> <<>>, nextZIndex |-> FirstZIndex,
   storage |-> [present |-> FALSE, windows |-> <<>>]]

\* the store as one value, and the call in progress with the store it started
\* from; focus is the id most recently created, restored or brought to front,
\* maximizedFrom the geometry each maximized window had when it was maximized
Manager == [windows |-> windows, nextZIndex |-> nextZIndex, storage |-> storage]

NoWmCall ==
  [op |-> "none", id |-> "", title |-> "",
   options |-> NoOptions,
   a |-> 0, b |-> 0, before |-> FreshManager, focus |-> "",
   maximizedFrom |-> [id \in WinIds |-> NoOptions]]

WmInit ==
  /\ windows = FreshManager.windows
  /\ nextZIndex = FreshManager.nextZIndex
  /\ storage = FreshManager.storage
  /\ wlast = NoWmCall

\* ------------------------------------------------ event bus and settings
\* src/src/os/apps/SettingsApp.tsx: class EventBus (events: a Map from event
\* name to the array of its callbacks) and class Settings (one localStorage
\* item holding the JSON of an object).  A JavaScript value is a tagged tuple.
Str(s) == <<"string", s>>
JsNull == <<"null">>
JsUndefined == <<"undefined">>
\* a || b
Or(a, b) == IF a \in {JsNull, JsUndefined, Str("")} THEN b ELSE a

\* how many subscriptions the callers of one run keep
MaxSubs == 3

EventNames == {"theme-changed", "wallpaper-changed"}
\* type Theme = "light" | "dark"; a wallpaper is string | null
Themes == {Str("light"), Str("dark")}
Wallpapers == {JsNull, Str(""), Str("w")}
\* the callbacks callers subscribe: f and g only look at the settings, once
\* first unsubscribes itself from OnceEvent, drop unsubscribes f from it
Callbacks == {"f", "g", "once", "drop"}
OnceEvent == "theme-changed"

\* callbacks.indexOf(callback), counted from 1: 0 when there is none
IndexOf(callbacks, callback) ==
  IF \E i \in DOMAIN callbacks : callbacks[i] = callback
  THEN CHOOSE i \in DOMAIN callbacks :
         callbacks[i] = callback /\ \A j \in 1..(i - 1) : callbacks[j] # callback
  ELSE 0

\* callbacks.splice(index, 1)
Splice(callbacks, index) ==
  [j \in 1..(Len(callbacks) - 1) |-> IF j < index THEN callbacks[j] ELSE callbacks[j + 1]]

on(ev, event, callback) ==
  LET made == IF ~MapHas(ev, event) THEN MapSet(ev, event, <<>>) ELSE ev
  IN [made EXCEPT ![event] = Append(@, callback)]

off(ev, event, callback) ==
  IF ~MapHas(ev, event) THEN ev
  ELSE LET index == IndexOf(ev[event], callback)
       IN IF index > 0 THEN [ev EXCEPT ![event] = Splice(@, index)] ELSE ev

\* the settings object getSettings() parses out of the item: {} without an
\* item; a key that is not in the JSON reads as undefined
getSettings(item) ==
  IF ~item.present THEN [theme |-> JsUndefined, wallpaper |-> JsUndefined]
  ELSE [theme |-> item.theme, wallpaper |-> item.wallpaper]

setSettings(settings) ==
  [present |-> TRUE, theme |-> settings.theme, wallpaper |-> settings.wallpaper]

getTheme(item) == Or(getSettings(item).theme, Str("light"))

getWallpaper(item) == Or(getSettings(item).wallpaper, JsNull)

\* the bus after the body of a callback has run
invoke(ev, callback) ==
  IF callback = "once" THEN off(ev, OnceEvent, "once")
  ELSE IF callback = "drop" THEN off(ev, OnceEvent, "f")
  ELSE ev

\* what a callback was called with and what it read from the settings then
Invocation(item, callback, args) ==
  [callback |-> callback, args |-> args,
   theme |-> getTheme(item), wallpaper |-> getWallpaper(item)]

\* Array.prototype.forEach from index k: the length len is read once before
\* the first call, the element at each index when its turn comes, and an index
\* the array no longer has is passed over
RECURSIVE forEach(_, _, _, _, _, _, _)
forEach(ev, item, event, args, k, len, log) ==
  IF k > len THEN [events |-> ev, log |-> log]
  ELSE IF k > Len(ev[event]) THEN forEach(ev, item, event, args, k + 1, len, log)
  ELSE forEach(invoke(ev, ev[event][k]), item, event, args, k + 1, len,
               Append(log, Invocation(item, ev[event][k], args)))

emit(ev, item, event, args) ==
  IF ~MapHas(ev, event) THEN [events |-> ev, log |-> <<>>]
  ELSE forEach(ev, item, event, args, 1, Len(ev[event]), <<>>)

setTheme(ev, item, theme) ==
  LET settings == [getSettings(item) EXCEPT !.theme = theme]
      stored == setSettings(settings)
      sent == emit(ev, stored, "theme-changed", theme)
  IN [events |-> sent.events, item |-> stored, log |-> sent.log]

setWallpaper(ev, item, wallpaper) ==
  LET settings == [getSettings(item) EXCEPT !.wallpaper = wallpaper]
      stored == setSettings(settings)
      sent == emit(ev, stored, "wallpaper-changed", wallpaper)
  IN [events |-> sent.events, item |-> stored, log |-> sent.log]

\* new EventBus() and an empty localStorage
NoItem == [present |-> FALSE, theme |-> JsUndefined, wallpaper |-> JsUndefined]

NoBusCall ==
  [op |-> "none", event |-> "", callback |-> "", args |-> JsUndefined,
   before |-> [events |-> EmptyMap, item |-> NoItem], log |-> <<>>]

BusInit ==
  /\ events = EmptyMap
  /\ settingsItem = NoItem
  /\ blast = NoBusCall

\* ------------------------------------------------------------- tab stores
\* src/unnamed/part_005 (useBrowserStore) and src/src/stores/terminal-store.ts
\* (useTerminalStore): two zustand stores { tabs, activeTabId } with the same
\* newTab, closeTab, setActiveTab and saveTabs, persisted through localforage.
\* A store is the record [tabs, activeTabId]; a tab id is the number of the
\* nanoid() call that made it, and no tab (null) is NoTab.
NoTab == 0

\* how many tabs one run opens, how long a history grows and how many
\* localforage writes are in flight
MaxTabs == 2
MaxHistory == 3
MaxPending == 2

Urls == {"u", "v"}
Commands == {"a", "b"}

\* what the callers of one run do: they browse in one tab, or open, close and
\* select browser tabs, or type commands in one terminal tab, or open, close
\* and select terminal tabs
TabLoads ==
  {[store |-> "browser", race |-> FALSE, tabs |-> 1, made |-> 1, urls |-> Urls,
    commands |-> {}, history |-> MaxHistory, pending |-> MaxPending - 1],
   [store |-> "browser", race |-> TRUE, tabs |-> MaxTabs, made |-> MaxTabs, urls |-> {"u"},
    commands |-> {}, history |-> MaxHistory - 1, pending |-> MaxPending],
   [store |-> "terminal", race |-> FALSE, tabs |-> 1, made |-> 1, urls |-> {},
    commands |-> Commands, history |-> MaxHistory, pending |-> MaxPending - 1],
   [store |-> "terminal", race |-> TRUE, tabs |-> MaxTabs, made |-> MaxTabs, urls |-> {},
    commands |-> {}, history |-> MaxHistory - 1, pending |-> MaxPending]}
\* the callers leave the tab stores alone
IdleTabLoad ==
  [store |-> "none", race |-> FALSE, tabs |-> 0, made |-> 0, urls |-> {},
   commands |-> {}, history |-> 0, pending |-> 0]

\* state.tabs.find((t) => t.id === id): the index of the first such tab, or 0
FindTab(ts, id) ==
  IF \E i \in DOMAIN ts : ts[i].id = id
  THEN CHOOSE i \in DOMAIN ts : ts[i].id = id /\ \A j \in 1..(i - 1) : ts[j].id # id
  ELSE 0

\* createBlankTab of the browser store and of the terminal store; historyIndex
\* counts from 0 as in the code
createBlankTab(store, id) ==
  IF store = "browser"
  THEN [id |-> id, url |-> "", history |-> <<"">>, historyIndex |-> 0]
  ELSE [id |-> id, commandHistory |-> <<>>, historyIndex |-> -1]

\* a plausible slip: the entries after historyIndex are kept
setUrlKeepsForward(st, id, url) ==
  LET k == FindTab(st.tabs, id)
  IN IF k = 0 THEN st
     ELSE LET tab == st.tabs[k]
              newHistory == Append(tab.history, url)
          IN [st EXCEPT !.tabs[k] = [tab EXCEPT !.url = url, !.history = newHistory,
                                                !.historyIndex = Len(newHistory) - 1]]

setUrl(st, id, url) ==
  LET k == FindTab(st.tabs, id)
  IN IF k = 0 THEN st
     ELSE LET tab == st.tabs[k]
              \* [...tab.history.slice(0, tab.historyIndex + 1), url]
              newHistory == Append(SubSeq(tab.history, 1, tab.historyIndex + 1), url)
          IN [st EXCEPT !.tabs[k] = [tab EXCEPT !.url = url, !.history = newHistory,
                                                !.historyIndex = Len(newHistory) - 1]]

back(st, id) ==
  LET k == FindTab(st.tabs, id)
  IN IF k = 0 \/ st.tabs[k].historyIndex = 0 THEN st
     ELSE LET tab == st.tabs[k]
              newHistoryIndex == tab.historyIndex - 1
          IN [st EXCEPT !.tabs[k] = [tab EXCEPT !.url = tab.history[newHistoryIndex + 1],
                                                !.historyIndex = newHistoryIndex]]

forward(st, id) ==
  LET k == FindTab(st.tabs, id)
  IN IF k = 0 \/ st.tabs[k].historyIndex >= Len(st.tabs[k].history) - 1 THEN st
     ELSE LET tab == st.tabs[k]
              newHistoryIndex == tab.historyIndex + 1
          IN [st EXCEPT !.tabs[k] = [tab EXCEPT !.url = tab.history[newHistoryIndex + 1],
                                                !.historyIndex = newHistoryIndex]]

newTab(st, blank) ==
  [tabs |-> Append(st.tabs, blank), activeTabId |-> blank.id]

closeTab(st, id) ==
  IF Len(st.tabs) <= 1 THEN st
  ELSE LET newTabs == SelectSeq(st.tabs, LAMBDA t : t.id # id)
           newActiveTabId ==
             IF st.activeTabId = id
             THEN IF Len(newTabs) > 0 THEN newTabs[1].id ELSE NoTab
             ELSE st.activeTabId
       IN [tabs |-> newTabs, activeTabId |-> newActiveTabId]

setActiveTab(st, id) == [st EXCEPT !.activeTabId = id]

addCommandToHistory(st, tabId, command) ==
  LET k == FindTab(st.tabs, tabId)
  IN IF k = 0 THEN st
     ELSE LET tab == st.tabs[k]
          IN \* lastCommand === command: the state is returned as it is
             IF tab.commandHistory # <<>> /\ tab.commandHistory[Len(tab.commandHistory)] = command
             THEN st
             ELSE [st EXCEPT !.tabs[k] =
                     [tab EXCEPT !.commandHistory = Append(tab.commandHistory, command),
                                 !.historyIndex = -1]]

\* the index navigateHistory moves to; Undefined where it returns before set()
navigateIndex(tab, direction) ==
  IF direction = "up"
  THEN IF tab.historyIndex = -1 THEN Len(tab.commandHistory) - 1
       ELSE IF tab.historyIndex > 0 THEN tab.historyIndex - 1
       ELSE tab.historyIndex
  ELSE IF tab.historyIndex = -1 THEN -1
       ELSE IF tab.historyIndex < Len(tab.commandHistory) - 1 THEN tab.historyIndex + 1
       ELSE -1

\* the store after navigateHistory and the command it returns (null: JsNull)
navigateHistory(st, tabId, direction) ==
  LET k == FindTab(st.tabs, tabId)
  IN IF k = 0 \/ st.tabs[k].commandHistory = <<>> THEN [store |-> st, out |-> JsNull]
     ELSE LET tab == st.tabs[k]
              newIndex == navigateIndex(tab, direction)
          IN IF direction = "down" /\ tab.historyIndex = -1 THEN [store |-> st, out |-> JsNull]
             ELSE [store |-> [st EXCEPT !.tabs[k] = [tab EXCEPT !.historyIndex = newIndex]],
                   out |-> IF newIndex = -1 THEN JsNull
                           ELSE Str(tab.commandHistory[newIndex + 1])]

\* a localforage.setItem in flight: the item it writes, the value it was
\* given (tabs or activeTabId of the store it was read from), and whether a
\* saveTabs waits for it to go on
Write(key, st, awaited) == [key |-> key, snap |-> st, awaited |-> awaited]

\* the setItem a saveTabs issues after the one on this item has completed
NextKey(store, key) ==
  IF key = "tabs" THEN "active"
  ELSE IF key = "active" /\ store = "terminal" THEN "settings"
  ELSE "none"

\* saveTabs up to its first await: get() is read and the tabs are written
saveTabs(queue, st) == Append(queue, Write("tabs", st, TRUE))

\* localforage.setItem(STORAGE_KEY_ACTIVE_TAB, id) of setActiveTab
saveActive(queue, st) == Append(queue, Write("active", st, FALSE))

\* the oldest write completes: the item is stored, and the saveTabs awaiting
\* it issues its next write with the values it read when it started
complete(store, items, queue) ==
  LET w == Head(queue)
      stored == IF w.key = "tabs" THEN [items EXCEPT !.tabs = w.snap.tabs]
                ELSE IF w.key = "active" THEN [items EXCEPT !.activeTabId = w.snap.activeTabId]
                ELSE items
      rest == Tail(queue)
  IN [forage |-> stored,
      pending |-> IF w.awaited /\ NextKey(store, w.key) # "none"
                  THEN Append(rest, Write(NextKey(store, w.key), w.snap, TRUE))
                  ELSE rest]

\* the stores after create() and an empty localforage
FreshStore == [tabs |-> <<>>, activeTabId |-> NoTab]

Store == [tabs |-> tabs, activeTabId |-> activeTabId]

NoTabCall ==
  [op |-> "none", id |-> NoTab, arg |-> "", before |-> FreshStore, out |-> JsNull]

TabInit ==
  /\ tabs = FreshStore.tabs
  /\ activeTabId = FreshStore.activeTabId
  /\ forage = FreshStore
  /\ pending = <<>>
  /\ minted = 0
  /\ tlast = NoTabCall

\* ---------------------------------------------------------- state machine
\* files: the persisted Map; clock: the last value Date.now() returned;
\* last: the most recent call, its arguments and its result; pre: the Map
\* that call started from; load: what the callers of this run do (how many
\* entries they keep, how long their paths grow, which contents they write,
\* how far the clock advances)
NoCall ==
  [op |-> "none", arg1 |-> <<>>, arg2 |-> <<>>, content |-> "", now |-> 0,
   ok |-> TRUE, isNull |-> TRUE, out |-> "", listing |-> <<>>, all |-> {}]

\* Date.now() never goes back; two calls may fall into the same millisecond
Now == {t \in {clock, clock + 1} : t <= load.clock}

\* a run either fills folders (one content, within one millisecond), or nests
\* fewer entries more deeply, or rewrites a single entry with several contents
\* over several milliseconds
Loads ==
  {[entries |-> MaxEntries, pathLen |-> MaxPathLen - 1, contents |-> {"hi"}, clock |-> 1],
   [entries |-> MaxEntries - 1, pathLen |-> MaxPathLen, contents |-> {"hi"}, clock |-> 1],
   [entries |-> 1, pathLen |-> MaxPathLen, contents |-> Contents, clock |-> MaxClock]}

WithinBounds(m) ==
  Cardinality(DOMAIN m) <= load.entries /\ \A k \in DOMAIN m : Len(k) <= load.pathLen

\* no call is in progress: the previous result has been taken by the caller
Idle == last.op = "none"

VfsInit ==
  /\ files = EmptyMap
  /\ clock = 1
  /\ last = NoCall
  /\ pre = EmptyMap

\* the file system alone: no window is ever opened
Init ==
  /\ VfsInit
  /\ load \in Loads
  /\ WmInit
  /\ wload \in {l \in WmLoads : l.ids = WinIds}
  /\ BusInit
  /\ TabInit
  /\ tload = IdleTabLoad

WriteFile(filename, content, folder) ==
  \E now \in Now :
    /\ Idle
    /\ WithinBounds(writeFile(files, filename, content, folder, now))
    /\ files' = writeFile(files, filename, content, folder, now)
    /\ clock' = now
    /\ last' = [NoCall EXCEPT !.op = "writeFile", !.arg1 = filename, !.arg2 = folder,
                              !.content = content, !.now = now]
    /\ pre' = files
    /\ load' = load
    /\ UNCHANGED <<wmVars, busVars, tabVars>>

CreateFolder(folderName, parentFolder) ==
  \E now \in Now :
    LET r == createFolder(files, folderName, parentFolder, now)
    IN /\ Idle
       /\ WithinBounds(r.files)
       /\ files' = r.files
       \* Date.now() is only reached when nothing is thrown
       /\ clock' = IF r.threw THEN clock ELSE now
       /\ last' = [NoCall EXCEPT !.op = "createFolder", !.arg1 = folderName,
                                 !.arg2 = parentFolder, !.ok = ~r.threw,
                                 !.now = IF r.threw THEN 0 ELSE now]
       /\ pre' = files
       /\ load' = load
       /\ UNCHANGED <<wmVars, busVars, tabVars>>

ReadFile(path) ==
  /\ Idle
  /\ files' = files
  /\ clock' = clock
  /\ last' = [NoCall EXCEPT !.op = "readFile", !.arg1 = path,
                            !.isNull = readFile(files, path).isNull,
                            !.out = readFile(files, path).content]
  /\ pre' = files
  /\ load' = load
  /\ UNCHANGED <<wmVars, busVars, tabVars>>

DeleteFile(path) ==
  /\ Idle
  /\ files' = deleteFile(files, path).files
  /\ clock' = clock
  /\ last' = [NoCall EXCEPT !.op = "deleteFile", !.arg1 = path,
                            !.ok = deleteFile(files, path).ret]
  /\ pre' = files
  /\ load' = load
  /\ UNCHANGED <<wmVars, busVars, tabVars>>

MoveFile(sourcePath, targetFolder) ==
  /\ Idle
  /\ WithinBounds(moveFile(files, sourcePath, targetFolder).files)
  /\ files' = moveFile(files, sourcePath, targetFolder).files
  /\ clock' = clock
  /\ last' = [NoCall EXCEPT !.op = "moveFile", !.arg1 = sourcePath, !.arg2 = targetFolder,
                            !.ok = moveFile(files, sourcePath, targetFolder).ret]
  /\ pre' = files
  /\ load' = load
  /\ UNCHANGED <<wmVars, busVars, tabVars>>

RenameFile(path, newName) ==
  /\ Idle
  /\ WithinBounds(renameFile(files, path, newName).files)
  /\ files' = renameFile(files, path, newName).files
  /\ clock' = clock
  /\ last' = [NoCall EXCEPT !.op = "renameFile", !.arg1 = path, !.arg2 = newName,
                            !.ok = renameFile(files, path, newName).ret]
  /\ pre' = files
  /\ load' = load
  /\ UNCHANGED <<wmVars, busVars, tabVars>>

Exists(path) ==
  /\ Idle
  /\ files' = files
  /\ clock' = clock
  /\ last' = [NoCall EXCEPT !.op = "exists", !.arg1 = path, !.ok = exists(files, path)]
  /\ pre' = files
  /\ load' = load
  /\ UNCHANGED <<wmVars, busVars, tabVars>>

List(folder) ==
  /\ Idle
  /\ files' = files
  /\ clock' = clock
  /\ last' = [NoCall EXCEPT !.op = "list", !.arg1 = folder, !.listing = list(files, folder)]
  /\ pre' = files
  /\ load' = load
  /\ UNCHANGED <<wmVars, busVars, tabVars>>

GetAllFiles ==
  /\ Idle
  /\ files' = files
  /\ clock' = clock
  /\ last' = [NoCall EXCEPT !.op = "getAllFiles", !.all = getAllFiles(files)]
  /\ pre' = files
  /\ load' = load
  /\ UNCHANGED <<wmVars, busVars, tabVars>>

Clear ==
  /\ Idle
  /\ files' = clear(files)
  /\ clock' = clock
  /\ last' = [NoCall EXCEPT !.op = "clear"]
  /\ pre' = files
  /\ load' = load
  /\ UNCHANGED <<wmVars, busVars, tabVars>>

\* the synchronous call returns: its caller takes the result
Return ==
  /\ ~Idle
  /\ last' = NoCall
  /\ pre' = EmptyMap
  /\ UNCHANGED <<files, clock, load>>
  /\ UNCHANGED <<wmVars, busVars, tabVars>>

Next ==
  \/ \E n \in Names, c \in load.contents, f \in Folders : WriteFile(n, c, f)
  \/ \E n \in Names, f \in Folders : CreateFolder(n, f)
  \/ \E p \in RawPaths : ReadFile(p)
  \/ \E p \in RawPaths : DeleteFile(p)
  \/ \E p \in RawPaths, f \in Folders : MoveFile(p, f)
  \/ \E p \in RawPaths, n \in Names : RenameFile(p, n)
  \/ \E p \in RawPaths : Exists(p)
  \/ \E p \in RawPaths : List(p)
  \/ GetAllFiles
  \/ Clear
  \/ Return

Spec == Init /\ [][Next]_vars

\* ------------------------------------------- window manager state machine
\* no call of the window manager is in progress
WIdle == wlast.op = "none"

\* the counter stays within the z-indices one run takes
WithinZ(st) == st.nextZIndex <= FirstZIndex + wload.steps

\* the call creates, restores or brings to front the window it names
Focuses(op, id) ==
  \/ op = "openWindow"
  \/ op \in {"restoreWindow", "bringToFront"} /\ HasWindow(windows, id)

\* the call maximizes the window it names
Maximizes(op, id) ==
  op = "toggleMaximize" /\ HasWindow(windows, id) /\ ~getWindow(Manager, id).maximized

\* x, y, width and height of a record
Geometry(w) == [x |-> w.x, y |-> w.y, width |-> w.width, height |-> w.height]

\* the store becomes st; the call and the store it started from are recorded
Commit(st, call) ==
  /\ WIdle
  /\ WithinZ(st)
  /\ windows' = st.windows
  /\ nextZIndex' = st.nextZIndex
  /\ storage' = st.storage
  /\ wlast' = [call EXCEPT !.before = Manager,
                          !.focus = IF Focuses(call.op, call.id) THEN call.id ELSE wlast.focus,
                          !.maximizedFrom = IF Maximizes(call.op, call.id)
                                            THEN [wlast.maximizedFrom EXCEPT
                                                    ![call.id] = Geometry(getWindow(Manager, call.id))]
                                            ELSE wlast.maximizedFrom]
  /\ wload' = wload
  /\ UNCHANGED <<vfsVars, busVars, tabVars>>

OpenWindow(id, title, options) ==
  Commit(openWindow(Manager, id, title, options),
         [NoWmCall EXCEPT !.op = "openWindow", !.id = id, !.title = title,
                          !.options = options])

CloseWindow(id) ==
  Commit(closeWindow(Manager, id), [NoWmCall EXCEPT !.op = "closeWindow", !.id = id])

MinimizeWindow(id) ==
  Commit(minimizeWindow(Manager, id), [NoWmCall EXCEPT !.op = "minimizeWindow", !.id = id])

RestoreWindow(id) ==
  Commit(restoreWindow(Manager, id), [NoWmCall EXCEPT !.op = "restoreWindow", !.id = id])

ToggleMaximize(id, viewport) ==
  Commit(toggleMaximize(Manager, id, viewport[1], viewport[2]),
         [NoWmCall EXCEPT !.op = "toggleMaximize", !.id = id,
                          !.a = viewport[1], !.b = viewport[2]])

BringToFront(id) ==
  Commit(bringToFront(Manager, id), [NoWmCall EXCEPT !.op = "bringToFront", !.id = id])

UpdatePosition(id, pos) ==
  Commit(updatePosition(Manager, id, pos[1], pos[2]),
         [NoWmCall EXCEPT !.op = "updatePosition", !.id = id, !.a = pos[1], !.b = pos[2]])

UpdateSize(id, size) ==
  Commit(updateSize(Manager, id, size[1], size[2]),
         [NoWmCall EXCEPT !.op = "updateSize", !.id = id, !.a = size[1], !.b = size[2]])

\* the synchronous call returns
WmReturn ==
  /\ ~WIdle
  /\ wlast' = [NoWmCall EXCEPT
                 !.focus = wlast.focus,
                 !.maximizedFrom =
                   [id \in WinIds |->
                      IF \E i \in DOMAIN windows : windows[i].id = id /\ windows[i].maximized
                      THEN wlast.maximizedFrom[id] ELSE NoOptions]]
  /\ UNCHANGED <<windows, nextZIndex, storage, wload>>
  /\ UNCHANGED <<vfsVars, busVars, tabVars>>

\* the window manager alone: the file system is not touched
InitWM ==
  /\ VfsInit
  /\ load \in {l \in Loads : l.contents = Contents}
  /\ WmInit
  /\ wload \in WmLoads
  /\ BusInit
  /\ TabInit
  /\ tload = IdleTabLoad

NextWM ==
  \/ \E id \in wload.ids, t \in wload.titles, o \in wload.options : OpenWindow(id, t, o)
  \/ \E id \in wload.ids : CloseWindow(id)
  \/ \E id \in wload.ids : MinimizeWindow(id)
  \/ \E id \in wload.ids : RestoreWindow(id)
  \/ \E id \in wload.ids, v \in wload.viewports : ToggleMaximize(id, v)
  \/ \E id \in wload.ids : BringToFront(id)
  \/ \E id \in wload.ids, p \in wload.positions : UpdatePosition(id, p)
  \/ \E id \in wload.ids, z \in wload.sizes : UpdateSize(id, z)
  \/ WmReturn

SpecWM == InitWM /\ [][NextWM]_vars

\* ------------------------------------------------ event bus state machine
\* no call of the bus or of the settings is in progress
BIdle == blast.op = "none"

\* the subscriptions of all events together
Subscriptions(ev) ==
  LET RECURSIVE Total(_)
      Total(names) ==
        IF names = {} THEN 0
        ELSE LET n == CHOOSE n \in names : TRUE
             IN Len(ev[n]) + Total(names \ {n})
  IN Total(DOMAIN ev)

\* the bus and the item become those of res; the call and what it started
\* from are recorded with the invocations it made
BusCommit(res, call) ==
  /\ BIdle
  /\ events' = res.events
  /\ settingsItem' = res.item
  /\ blast' = [call EXCEPT !.before = [events |-> events, item |-> settingsItem],
                          !.log = res.log]
  /\ UNCHANGED <<vfsVars, wmVars, tabVars>>

On(event, callback) ==
  /\ Subscriptions(events) < MaxSubs
  /\ BusCommit([events |-> on(events, event, callback), item |-> settingsItem, log |-> <<>>],
               [NoBusCall EXCEPT !.op = "on", !.event = event, !.callback = callback])

Off(event, callback) ==
  BusCommit([events |-> off(events, event, callback), item |-> settingsItem, log |-> <<>>],
            [NoBusCall EXCEPT !.op = "off", !.event = event, !.callback = callback])

Emit(event, args) ==
  LET sent == emit(events, settingsItem, event, args)
  IN BusCommit([events |-> sent.events, item |-> settingsItem, log |-> sent.log],
               [NoBusCall EXCEPT !.op = "emit", !.event = event, !.args = args])

SetTheme(theme) ==
  BusCommit(setTheme(events, settingsItem, theme),
            [NoBusCall EXCEPT !.op = "setTheme", !.event = "theme-changed", !.args = theme])

SetWallpaper(wallpaper) ==
  BusCommit(setWallpaper(events, settingsItem, wallpaper),
            [NoBusCall EXCEPT !.op = "setWallpaper", !.event = "wallpaper-changed",
                              !.args = wallpaper])

\* the synchronous call returns
BusReturn ==
  /\ ~BIdle
  /\ blast' = NoBusCall
  /\ UNCHANGED <<events, settingsItem>>
  /\ UNCHANGED <<vfsVars, wmVars, tabVars>>

\* the bus and the settings alone
InitBus ==
  /\ VfsInit
  /\ load \in {l \in Loads : l.contents = Contents}
  /\ WmInit
  /\ wload \in {l \in WmLoads : l.ids = WinIds}
  /\ BusInit
  /\ TabInit
  /\ tload = IdleTabLoad

NextBus ==
  \/ \E e \in EventNames, c \in Callbacks : On(e, c)
  \/ \E e \in EventNames, c \in Callbacks : Off(e, c)
  \/ \E e \in EventNames, a \in Themes \cup Wallpapers : Emit(e, a)
  \/ \E t \in Themes : SetTheme(t)
  \/ \E w \in Wallpapers : SetWallpaper(w)
  \/ BusReturn

SpecBus == InitBus /\ [][NextBus]_vars

\* ------------------------------------------------ tab stores state machine
\* no call of a tab store is in progress
TIdle == tlast.op = "none"

\* the ids nanoid() has minted so far
MadeIds == 1..minted

\* the store becomes st and the writes in flight become queue
TabCommit(st, queue, call) ==
  /\ TIdle
  /\ Len(queue) <= tload.pending
  /\ tabs' = st.tabs
  /\ activeTabId' = st.activeTabId
  /\ pending' = queue
  /\ tlast' = [call EXCEPT !.before = Store]
  /\ UNCHANGED <<forage, tload>>
  /\ UNCHANGED <<vfsVars, wmVars, busVars>>

SetUrl(id, url) ==
  /\ tload.store = "browser"
  /\ \A i \in DOMAIN tabs : tabs[i].id = id => tabs[i].historyIndex + 2 <= tload.history
  /\ minted' = minted
  /\ TabCommit(setUrl(Store, id, url), saveTabs(pending, setUrl(Store, id, url)),
               [NoTabCall EXCEPT !.op = "setUrl", !.id = id, !.arg = url])

Back(id) ==
  /\ tload.store = "browser" /\ ~tload.race
  /\ minted' = minted
  /\ TabCommit(back(Store, id), saveTabs(pending, back(Store, id)),
               [NoTabCall EXCEPT !.op = "back", !.id = id])

Forward(id) ==
  /\ tload.store = "browser" /\ ~tload.race
  /\ minted' = minted
  /\ TabCommit(forward(Store, id), saveTabs(pending, forward(Store, id)),
               [NoTabCall EXCEPT !.op = "forward", !.id = id])

NewTab ==
  /\ tload.store # "none"
  /\ minted < tload.made
  /\ Len(tabs) < tload.tabs
  /\ minted' = minted + 1
  /\ LET st == newTab(Store, createBlankTab(tload.store, minted + 1))
     IN TabCommit(st, saveTabs(pending, st),
                  [NoTabCall EXCEPT !.op = "newTab", !.id = minted + 1])

CloseTab(id) ==
  /\ tload.store # "none"
  /\ minted' = minted
  /\ TabCommit(closeTab(Store, id), saveTabs(pending, closeTab(Store, id)),
               [NoTabCall EXCEPT !.op = "closeTab", !.id = id])

SetActiveTab(id) ==
  /\ tload.store # "none"
  /\ minted' = minted
  /\ TabCommit(setActiveTab(Store, id), saveActive(pending, setActiveTab(Store, id)),
               [NoTabCall EXCEPT !.op = "setActiveTab", !.id = id])

AddCommandToHistory(id, command) ==
  /\ tload.store = "terminal"
  /\ \A i \in DOMAIN tabs : tabs[i].id = id => Len(tabs[i].commandHistory) < tload.history
  /\ minted' = minted
  /\ TabCommit(addCommandToHistory(Store, id, command),
               saveTabs(pending, addCommandToHistory(Store, id, command)),
               [NoTabCall EXCEPT !.op = "addCommandToHistory", !.id = id, !.arg = command])

NavigateHistory(id, direction) ==
  /\ tload.store = "terminal" /\ ~tload.race
  /\ minted' = minted
  /\ TabCommit(navigateHistory(Store, id, direction).store, pending,
               [NoTabCall EXCEPT !.op = "navigateHistory", !.id = id, !.arg = direction,
                                 !.out = navigateHistory(Store, id, direction).out])

\* the synchronous call returns
TabReturn ==
  /\ ~TIdle
  /\ tlast' = NoTabCall
  /\ UNCHANGED <<tabs, activeTabId, forage, pending, minted, tload>>
  /\ UNCHANGED <<vfsVars, wmVars, busVars>>

\* between two calls the oldest localforage write completes
Complete ==
  /\ TIdle
  /\ pending # <<>>
  /\ forage' = complete(tload.store, forage, pending).forage
  /\ pending' = complete(tload.store, forage, pending).pending
  /\ UNCHANGED <<tabs, activeTabId, minted, tlast, tload>>
  /\ UNCHANGED <<vfsVars, wmVars, busVars>>

\* the tab stores alone
InitTabs ==
  /\ VfsInit
  /\ load \in {l \in Loads : l.contents = Contents}
  /\ WmInit
  /\ wload \in {l \in WmLoads : l.ids = WinIds}
  /\ BusInit
  /\ TabInit
  /\ tload \in TabLoads

NextTabs ==
  \/ \E id \in MadeIds, u \in tload.urls : SetUrl(id, u)
  \/ \E id \in MadeIds : Back(id)
  \/ \E id \in MadeIds : Forward(id)
  \/ NewTab
  \/ \E id \in MadeIds : CloseTab(id)
  \/ \E id \in MadeIds : SetActiveTab(id)
  \/ \E id \in MadeIds, c \in tload.commands : AddCommandToHistory(id, c)
  \/ \E id \in MadeIds, d \in {"up", "down"} : NavigateHistory(id, d)
  \/ TabReturn
  \/ Complete

SpecTabs == InitTabs /\ [][NextTabs]_vars

\* ------------------------------------------------- what the model rests on
\* the Map insertion order is not modelled.  It could only show in the scan of
\* readFile and deleteFile (first match wins) and in the sort of list (ties
\* keep their Map order): neither has a choice to make in any reachable state
ScanUnique ==
  \A p \in RawPaths :
    ~MapHas(files, normalizePath(p)) => Cardinality(ScanMatches(files, p)) <= 1

ListNoTies ==
  \A f \in RawPaths :
    \A i, j \in DOMAIN list(files, f) :
      i # j => listCompare(list(files, f)[i], list(files, f)[j]) # 0

TypeOK ==
  /\ clock \in 1..MaxClock
  /\ load \in Loads
  /\ Cardinality(DOMAIN files) <= load.entries
  /\ \A k \in DOMAIN files :
       /\ Len(k) <= load.pathLen
       /\ files[k].size = ContentLength(files[k].content)
       /\ files[k].created \in 1..clock
       /\ files[k].modified \in 1..clock

\* ------------------------------------------------------ claim vocabulary
\* the paths of the specification: the key an argument denotes, its parent
\* prefix and its last segment, computed without the operators of the code
RECURSIVE Trim(_)
Trim(p) ==
  IF p # <<>> /\ p[1] = Slash THEN Trim(SubSeq(p, 2, Len(p)))
  ELSE IF p # <<>> /\ p[Len(p)] = Slash THEN Trim(SubSeq(p, 1, Len(p) - 1))
  ELSE p
RECURSIVE LastSlash(_)
LastSlash(p) == IF p = <<>> THEN 0 ELSE IF p[Len(p)] = Slash THEN Len(p)
                ELSE LastSlash(SubSeq(p, 1, Len(p) - 1))
ParentPrefix(p) == SubSeq(p, 1, LastSlash(p))
LastSegment(p) == SubSeq(p, LastSlash(p) + 1, Len(p))
Under(k, p) == Len(k) >= Len(p) + 1 /\ SubSeq(k, 1, Len(p) + 1) = p \o <<Slash>>
RelativeTo(k, p) == SubSeq(k, Len(p) + 2, Len(k))
SeparatorFree(r) == \A i \in DOMAIN r : r[i] # Slash
ChildPath(folder, name) == IF folder = <<>> THEN name ELSE folder \o <<Slash>> \o name
\* the spellings of one path: bare, with a leading and with a trailing separator
Spellings(p) == {p, <<Slash>> \o p, p \o <<Slash>>}
Elements(seq) == {seq[i] : i \in DOMAIN seq}

Did(op) == last.op = op
ReadsAs(m, path, content) == readFile(m, path) = [isNull |-> FALSE, content |-> content]

\* ------------------------------------------------------------------ C1
\* C1: after writeFile(name, content, parent), readFile of the written entry's
\* path returns exactly that content, whatever the path held before.
C1_RoundTrip ==
  Did("writeFile") =>
    LET written == files[fullPathOf(last.arg1, last.arg2)]
    IN ReadsAs(files, written.path, last.content)

\* the round trip does hold for every parent that is not made of separators only
C1_RoundTripUnlessSlashParent ==
  (Did("writeFile") /\ ~(last.arg2 # <<>> /\ Trim(last.arg2) = <<>>)) =>
    LET written == files[fullPathOf(last.arg1, last.arg2)]
    IN ReadsAs(files, written.path, last.content)

C3_DeleteFrame ==
  LET P == Trim(last.arg1)
  IN Did("deleteFile") =>
       /\ \A k \in DOMAIN pre :
            (k # P /\ ~Under(k, P)) => k \in DOMAIN files /\ files[k] = pre[k]
       /\ DOMAIN files \subseteq DOMAIN pre
       /\ (last.ok /\ P \in DOMAIN pre /\ ~pre[P].isFolder) => DOMAIN files = DOMAIN pre \ {P}

\* the frame does hold whenever an entry is stored under the key P itself
C3_DeleteFrameOfStoredKey ==
  LET P == Trim(last.arg1)
  IN (Did("deleteFile") /\ P \in DOMAIN pre) =>
       /\ \A k \in DOMAIN pre :
            (k # P /\ ~Under(k, P)) => k \in DOMAIN files /\ files[k] = pre[k]
       /\ DOMAIN files \subseteq DOMAIN pre
       /\ ~pre[P].isFolder => DOMAIN files = DOMAIN pre \ {P}

\* the source and the destination key of the move or rename in `last`
Moved == Did("moveFile") \/ Did("renameFile")
SourceKey == Trim(last.arg1)
DestKey ==
  IF Did("moveFile") THEN ChildPath(Trim(last.arg2), LastSegment(SourceKey))
  ELSE ParentPrefix(SourceKey) \o last.arg2
SameData(new, old) ==
  /\ new.content = old.content
  /\ new.size = old.size
  /\ new.isFolder = old.isFolder
  /\ new.created = old.created
  /\ new.modified = old.modified

\* ------------------------------------------------------------------ C4
\* C4: a successful move or rename of a folder from S to D re-keys every
\* descendant S/r to D/r with the same r, each keeping its content, size,
\* isFolder flag and timestamps; no key S or S/r remains afterwards.
C4_FolderRekey ==
  (Moved /\ last.ok /\ SourceKey \in DOMAIN pre /\ pre[SourceKey].isFolder) =>
    /\ \A k \in DOMAIN pre :
         Under(k, SourceKey) =>
           LET nk == DestKey \o <<Slash>> \o RelativeTo(k, SourceKey)
           IN nk \in DOMAIN files /\ SameData(files[nk], pre[k])
    /\ \A k \in DOMAIN files : k # SourceKey /\ ~Under(k, SourceKey)

\* C4 as amended: every descendant S/r is re-keyed to D/r with its data kept,
\* and a key S or S/r that is still stored afterwards is one of the new keys
\* (D, or D/r of a descendant), as when a folder is moved up over its parent's
\* name or into itself.
C4_FolderRekeyAmended ==
  (Moved /\ last.ok /\ SourceKey \in DOMAIN pre /\ pre[SourceKey].isFolder) =>
    LET newKeys == {DestKey} \cup
                   {DestKey \o <<Slash>> \o RelativeTo(k, SourceKey) :
                      k \in {d \in DOMAIN pre : Under(d, SourceKey)}}
    IN /\ \A k \in DOMAIN pre :
            Under(k, SourceKey) =>
              LET nk == DestKey \o <<Slash>> \o RelativeTo(k, SourceKey)
              IN nk \in DOMAIN files /\ SameData(files[nk], pre[k])
       /\ \A k \in DOMAIN files : (k = SourceKey \/ Under(k, SourceKey)) => k \in newKeys

\* a folder that holds a non-empty file has just been re-keyed to another key
C4_Witness ==
  /\ Moved /\ last.ok /\ SourceKey \in DOMAIN pre /\ pre[SourceKey].isFolder
  /\ \E k \in DOMAIN pre : Under(k, SourceKey) /\ ~pre[k].isFolder /\ pre[k].content # ""
  /\ DestKey # SourceKey

\* ------------------------------------------------------------------ C5
\* C5: a successful move or rename never loses data through a key collision:
\* as many entries are stored after as before, and no entry other than the
\* source and its descendants is overwritten, removed or modified.
C5_NoCollisionLoss ==
  (Moved /\ last.ok) =>
    /\ Cardinality(DOMAIN files) = Cardinality(DOMAIN pre)
    /\ \A k \in DOMAIN pre :
         (k # SourceKey /\ ~Under(k, SourceKey)) => k \in DOMAIN files /\ files[k] = pre[k]

\* ------------------------------------------------------------------ C6
\* C6: moveFile(source, targetFolder) reports failure and leaves the store
\* unchanged when no entry exists at the normalized source path or an entry
\* already exists at targetFolder/name (name alone for the root); it reports
\* success in every other case.
C6_MoveFailure ==
  Did("moveFile") =>
    LET fails == SourceKey \notin DOMAIN pre \/ DestKey \in DOMAIN pre
    IN /\ fails => ~last.ok /\ files = pre
       /\ ~fails => last.ok

\* a move has just been refused because its destination is taken
C6_Witness ==
  Did("moveFile") /\ ~last.ok /\ SourceKey \in DOMAIN pre /\ DestKey \in DOMAIN pre
    /\ DestKey # SourceKey

\* ------------------------------------------------------------------ C7
\* C7: renameFile(path, newName) changes only the final segment of the entry's
\* path: the parent prefix is kept, the entry's name becomes newName and its
\* descendants keep their names; it reports failure and leaves the store
\* unchanged when no entry exists at path or the new path already has one.
C7_Rename ==
  Did("renameFile") =>
    LET fails == SourceKey \notin DOMAIN pre \/ DestKey \in DOMAIN pre
    IN /\ fails => ~last.ok /\ files = pre
       /\ ~fails =>
            /\ last.ok
            /\ SourceKey \notin DOMAIN files
            /\ DestKey \in DOMAIN files
            /\ files[DestKey].name = last.arg2
            /\ files[DestKey].path = ParentPrefix(SourceKey) \o last.arg2
            /\ pre[SourceKey].isFolder =>
                 \A k \in DOMAIN pre :
                   Under(k, SourceKey) =>
                     LET nk == DestKey \o <<Slash>> \o RelativeTo(k, SourceKey)
                     IN nk \in DOMAIN files /\ files[nk].name = pre[k].name

\* a folder below the root, with a child, has just been renamed
C7_Witness ==
  /\ Did("renameFile") /\ last.ok
  /\ ParentPrefix(SourceKey) # <<>>
  /\ pre[SourceKey].isFolder
  /\ \E k \in DOMAIN pre : Under(k, SourceKey)

\* ------------------------------------------------------------------ C8
IsDirectChild(k, folder) ==
  IF folder = <<>> THEN SeparatorFree(k)
  ELSE Under(k, folder) /\ SeparatorFree(RelativeTo(k, folder))

\* C8: list(folder) returns exactly the direct children of the normalized
\* folder: an entry is returned if and only if its key is folder + '/' + r with
\* r free of separators (for the root: the key itself is free of separators);
\* no deeper descendant, no entry of another folder, not the folder itself.
C8_ListDirectChildren ==
  Did("list") =>
    /\ Elements(last.listing) =
         {pre[k] : k \in {c \in DOMAIN pre : IsDirectChild(c, Trim(last.arg1))}}
    /\ Len(last.listing) = Cardinality(Elements(last.listing))

\* a stored folder with a child and a deeper descendant has just been listed
C8_Witness ==
  /\ Did("list") /\ Trim(last.arg1) # <<>> /\ last.listing # <<>>
  /\ \E k \in DOMAIN pre : Under(k, Trim(last.arg1)) /\ ~IsDirectChild(k, Trim(last.arg1))
  /\ Trim(last.arg1) \in DOMAIN pre

\* ------------------------------------------------------------------ C9
Alphabet == <<"a", "b">>
LetterIndex(c) == CHOOSE i \in DOMAIN Alphabet : Alphabet[i] = c
RECURSIVE NameLeq(_, _)
NameLeq(a, b) ==
  IF a = <<>> THEN TRUE
  ELSE IF b = <<>> THEN FALSE
  ELSE IF a[1] = b[1] THEN NameLeq(Tail(a), Tail(b))
  ELSE LetterIndex(a[1]) < LetterIndex(b[1])

\* C9: the sequence list(folder) returns is ordered: every folder entry comes
\* before every file entry, and within the folders and within the files the
\* entries are in ascending order of name.
C9_ListOrder ==
  Did("list") =>
    \A i, j \in DOMAIN last.listing :
      i < j =>
        /\ last.listing[j].isFolder => last.listing[i].isFolder
        /\ last.listing[i].isFolder = last.listing[j].isFolder =>
             NameLeq(last.listing[i].name, last.listing[j].name)

\* a listing has just put a folder before a file whose name sorts first
C9_Witness ==
  /\ Did("list")
  /\ \E i, j \in DOMAIN last.listing :
       /\ i < j
       /\ last.listing[i].isFolder /\ ~last.listing[j].isFolder
       /\ last.listing[i].name # last.listing[j].name
       /\ NameLeq(last.listing[j].name, last.listing[i].name)

\* ------------------------------------------------------------------ C10
\* C10: path forms that normalize to the same path address the same entry in
\* every operation: writeFile and createFolder with the parent spelled '', '/',
\* 'a', '/a' or 'a/' store the entry under the normalized key (the name alone
\* for the root, 'a/name' otherwise), and afterwards exists(), readFile(),
\* list() of the parent and deleteFile() find it under every equivalent form.
C10_EquivalentForms ==
  ((Did("writeFile") \/ Did("createFolder")) /\ last.ok) =>
    LET parent == Trim(last.arg2)
        key == ChildPath(parent, last.arg1)
    IN /\ key \in DOMAIN files
       /\ files[key].name = last.arg1
       /\ \A q \in Spellings(key) :
            /\ exists(files, q)
            /\ Did("writeFile") => ReadsAs(files, q, last.content)
            /\ deleteFile(files, q).ret
            /\ key \notin DOMAIN deleteFile(files, q).files
       /\ \A f \in Spellings(parent) : files[key] \in Elements(list(files, f))

\* the equivalence does hold for every parent that is not made of separators only
C10_EquivalentFormsUnlessSlashParent ==
  ((Did("writeFile") \/ Did("createFolder")) /\ last.ok
     /\ ~(last.arg2 # <<>> /\ Trim(last.arg2) = <<>>)) =>
    LET parent == Trim(last.arg2)
        key == ChildPath(parent, last.arg1)
    IN /\ key \in DOMAIN files
       /\ files[key].name = last.arg1
       /\ \A q \in Spellings(key) :
            /\ exists(files, q)
            /\ Did("writeFile") => ReadsAs(files, q, last.content)
            /\ deleteFile(files, q).ret
            /\ key \notin DOMAIN deleteFile(files, q).files
       /\ \A f \in Spellings(parent) : files[key] \in Elements(list(files, f))

\* ------------------------------------------------------------------ C11
\* C11: createFolder(name, parent) fails with "Folder already exists" whenever
\* an entry, file or folder, is stored at parent/name, and then leaves the
\* store unchanged; otherwise it inserts a folder entry with empty content,
\* size 0 and created equal to modified.
C11_CreateFolder ==
  Did("createFolder") =>
    LET key == ChildPath(Trim(last.arg2), last.arg1)
    IN /\ key \in DOMAIN pre => ~last.ok /\ files = pre
       /\ key \notin DOMAIN pre =>
            /\ last.ok
            /\ key \in DOMAIN files
            /\ files[key].isFolder /\ files[key].content = "" /\ files[key].size = 0
            /\ files[key].created = files[key].modified
            /\ \A k \in DOMAIN pre : k \in DOMAIN files /\ files[k] = pre[k]

\* the same does hold for every parent that is not made of separators only
C11_CreateFolderUnlessSlashParent ==
  (Did("createFolder") /\ ~(last.arg2 # <<>> /\ Trim(last.arg2) = <<>>)) =>
    LET key == ChildPath(Trim(last.arg2), last.arg1)
    IN /\ key \in DOMAIN pre => ~last.ok /\ files = pre
       /\ key \notin DOMAIN pre =>
            /\ last.ok
            /\ key \in DOMAIN files
            /\ files[key].isFolder /\ files[key].content = "" /\ files[key].size = 0
            /\ files[key].created = files[key].modified
            /\ \A k \in DOMAIN pre : k \in DOMAIN files /\ files[k] = pre[k]

\* ------------------------------------------------------------------ C12
\* the entries a successful move or rename re-keys, as pairs of old and new key
MovedPairs ==
  {<<SourceKey, DestKey>>} \cup
  {<<k, DestKey \o <<Slash>> \o RelativeTo(k, SourceKey)>> :
     k \in {d \in DOMAIN pre : pre[SourceKey].isFolder /\ Under(d, SourceKey)}}

\* C12: writeFile on a path that already holds an entry keeps that entry's
\* created timestamp and sets modified to the current time and size to the
\* length of the new content; created <= modified holds for every stored entry
\* in every reachable state; moveFile and renameFile never change created.
C12_Timestamps ==
  /\ \A k \in DOMAIN files : files[k].created <= files[k].modified
  /\ Did("writeFile") =>
       LET key == ChildPath(Trim(last.arg2), last.arg1)
       IN key \in DOMAIN pre =>
            /\ key \in DOMAIN files
            /\ files[key].created = pre[key].created
            /\ files[key].modified = last.now
            /\ files[key].size = Len(last.content)
  /\ (Moved /\ last.ok) =>
       \A pr \in MovedPairs :
         pr[2] \in DOMAIN files /\ files[pr[2]].created = pre[pr[1]].created

\* the same does hold for every parent that is not made of separators only
C12_TimestampsUnlessSlashParent ==
  /\ \A k \in DOMAIN files : files[k].created <= files[k].modified
  /\ (Did("writeFile") /\ ~(last.arg2 # <<>> /\ Trim(last.arg2) = <<>>)) =>
       LET key == ChildPath(Trim(last.arg2), last.arg1)
       IN key \in DOMAIN pre =>
            /\ key \in DOMAIN files
            /\ files[key].created = pre[key].created
            /\ files[key].modified = last.now
            /\ files[key].size = Len(last.content)
  /\ (Moved /\ last.ok) =>
       \A pr \in MovedPairs :
         pr[2] \in DOMAIN files /\ files[pr[2]].created = pre[pr[1]].created

\* ------------------------------------------------------------------ C13
\* every key of the store is in normalized form
Normalized(m) == \A k \in DOMAIN m : Trim(k) = k

\* C13: readFile(path) returns the stored content if and only if an entry is
\* stored at the normalized path and is not a folder; for a missing path and
\* for a folder it returns null; it never changes the store.
C13_ReadFile ==
  Did("readFile") =>
    LET P == Trim(last.arg1)
        isFile == P \in DOMAIN pre /\ ~pre[P].isFolder
    IN /\ files = pre
       /\ ~last.isNull <=> isFile
       /\ isFile => last.out = pre[P].content

\* the same does hold in every store whose keys are all normalized
C13_ReadFileOfNormalizedStore ==
  (Did("readFile") /\ Normalized(pre)) =>
    LET P == Trim(last.arg1)
        isFile == P \in DOMAIN pre /\ ~pre[P].isFolder
    IN /\ files = pre
       /\ ~last.isNull <=> isFile
       /\ isFile => last.out = pre[P].content

\* ------------------------------------------------------------------ C14
\* C14: deleteFile(path) resolves the path by exact match on the normalized
\* key: when exists(path) is false it reports failure and leaves the store
\* unchanged; when it reports success exists(path) was true before and is
\* false after.
C14_DeleteExactMatch ==
  Did("deleteFile") =>
    /\ ~exists(pre, last.arg1) => ~last.ok /\ files = pre
    /\ last.ok => exists(pre, last.arg1) /\ ~exists(files, last.arg1)

\* the same does hold in every store whose keys are all normalized
C14_DeleteOfNormalizedStore ==
  (Did("deleteFile") /\ Normalized(pre)) =>
    /\ ~exists(pre, last.arg1) => ~last.ok /\ files = pre
    /\ last.ok => exists(pre, last.arg1) /\ ~exists(files, last.arg1)

\* ------------------------------------------------------------------ C15
\* C15: after clear(), from any reachable store, getAllFiles() is empty,
\* exists(p) is false for every path p and list(f) is empty for every folder f.
C15_Clear ==
  Did("clear") =>
    /\ getAllFiles(files) = {}
    /\ \A p \in RawPaths \cup DOMAIN pre : ~exists(files, p)
    /\ \A f \in RawPaths \cup Folders : list(files, f) = <<>>

\* a store with a folder, a child of it and a deeper descendant has just been cleared
C15_Witness ==
  /\ Did("clear")
  /\ \E k1, k2, k3 \in DOMAIN pre : pre[k1].isFolder /\ Under(k2, k1) /\ Under(k3, k2)

\* ------------------------------------------- window manager vocabulary
WDid(op) == wlast.op = op
\* the windows the call in progress started from, and whether its id was open
WBefore == wlast.before.windows
WasOpen == \E i \in DOMAIN WBefore : WBefore[i].id = wlast.id
\* every record of another id is the record it was, at the same place
OthersUnchanged ==
  /\ Len(windows) = Len(WBefore)
  /\ \A j \in DOMAIN windows : WBefore[j].id # wlast.id => windows[j] = WBefore[j]
\* the window with this id is above every other open window
OnTop(id) ==
  \A i, j \in DOMAIN windows :
    (windows[i].id = id /\ windows[j].id # id) => windows[i].zIndex > windows[j].zIndex

\* ------------------------------------------------------------------ C16
\* C16: after bringToFront(id) on an open window, that window's z-index is
\* strictly greater than the z-index of every other open window, and every
\* other window's record (z-index, geometry, flags) is unchanged.
C16_BringToFront ==
  (WDid("bringToFront") /\ WasOpen) =>
    /\ \E i \in DOMAIN windows : windows[i].id = wlast.id
    /\ OnTop(wlast.id)
    /\ OthersUnchanged

\* the lowest of three open windows has just been brought to the front
C16_Witness ==
  /\ WDid("bringToFront") /\ WasOpen /\ Len(WBefore) = 3
  /\ \A i, j \in DOMAIN WBefore :
       (WBefore[i].id = wlast.id /\ WBefore[j].id # wlast.id) =>
         WBefore[i].zIndex < WBefore[j].zIndex

\* ------------------------------------------------------------------ C17
\* C17: in every reachable state no two open windows have the same z-index,
\* and the window most recently created, restored or brought to front, if it
\* is still open, holds the highest z-index of all open windows.
C17_DistinctZ ==
  /\ \A i, j \in DOMAIN windows : i # j => windows[i].zIndex # windows[j].zIndex
  /\ OnTop(wlast.focus)

\* three windows are open and the one focused last is not the one opened last
C17_Witness ==
  /\ Len(windows) = 3
  /\ \E i \in DOMAIN windows : windows[i].id = wlast.focus /\ i < 3
  /\ \E i \in DOMAIN windows : windows[i].minimized

\* ------------------------------------------------------------------ C18
NoSnapshot(w) ==
  w.prevX = Undefined /\ w.prevY = Undefined /\ w.prevWidth = Undefined /\ w.prevHeight = Undefined
SameGeometry(w, g) == w.x = g.x /\ w.y = g.y /\ w.width = g.width /\ w.height = g.height

\* C18: for every open, non-maximized window with geometry g, toggleMaximize(id)
\* followed immediately by toggleMaximize(id) leaves the window non-maximized
\* with geometry exactly g, values of 0 included, and no saved snapshot.
C18_ToggleTwice ==
  \A i \in DOMAIN windows :
    (WIdle /\ ~windows[i].maximized) =>
      \A v1 \in Viewports, v2 \in Viewports :
        LET once == toggleMaximize(Manager, windows[i].id, v1[1], v1[2])
            twice == toggleMaximize(once, windows[i].id, v2[1], v2[2])
        IN /\ once.windows[i].maximized
           /\ Len(twice.windows) = Len(windows)
           /\ twice.windows[i].id = windows[i].id
           /\ ~twice.windows[i].maximized
           /\ SameGeometry(twice.windows[i], windows[i])
           /\ NoSnapshot(twice.windows[i])

\* the second toggleMaximize has just restored a window maximized from a
\* geometry made of zeros
C18_Witness ==
  /\ WDid("toggleMaximize")
  /\ \E i \in DOMAIN windows :
       /\ windows[i].id = wlast.id
       /\ WBefore[i].maximized
       /\ WBefore[i].prevX = 0 /\ WBefore[i].prevY = 0
       /\ WBefore[i].prevWidth = 0 /\ WBefore[i].prevHeight = 0
       /\ ~windows[i].maximized
       /\ windows[i].x = 0 /\ windows[i].width = 0

\* ------------------------------------------------------------------ C19
FullSnapshot(w) ==
  w.prevX # Undefined /\ w.prevY # Undefined /\ w.prevWidth # Undefined /\ w.prevHeight # Undefined

\* C19: in every reachable state, for every open window, the saved geometry
\* snapshot (prevX, prevY, prevWidth, prevHeight) is fully present if maximized
\* is true and fully absent if maximized is false.
C19_SnapshotIffMaximized ==
  \A i \in DOMAIN windows :
    IF windows[i].maximized THEN FullSnapshot(windows[i]) ELSE NoSnapshot(windows[i])

\* one window is maximized and another has just been restored from maximized
C19_Witness ==
  /\ WDid("toggleMaximize")
  /\ \E i, j \in DOMAIN windows :
       /\ windows[i].id = wlast.id /\ WBefore[i].maximized /\ ~windows[i].maximized
       /\ windows[j].maximized

\* ------------------------------------------------------------------ C20
\* C20: in every reachable state at most one record exists per window id,
\* after any sequence of openWindow, closeWindow, minimizeWindow, restoreWindow,
\* bringToFront, toggleMaximize, updatePosition and updateSize.
C20_UniqueIds ==
  \A i, j \in DOMAIN windows : i # j => windows[i].id # windows[j].id

\* openWindow has just been called for an id that was open, among other windows
C20_Witness ==
  /\ WDid("openWindow") /\ WasOpen
  /\ Len(WBefore) >= 2
  /\ \E i \in DOMAIN WBefore : WBefore[i].id = wlast.id /\ WBefore[i].minimized

\* ------------------------------------------------------------------ C21
\* the place of the call's id in the list the call started from, or 0
WPlace == IF WasOpen THEN CHOOSE i \in DOMAIN WBefore : WBefore[i].id = wlast.id ELSE 0
\* the record keeps every field but minimized and zIndex
SameButShown(w, v) ==
  /\ w.id = v.id /\ w.title = v.title
  /\ SameGeometry(w, v)
  /\ w.maximized = v.maximized
  /\ w.prevX = v.prevX /\ w.prevY = v.prevY
  /\ w.prevWidth = v.prevWidth /\ w.prevHeight = v.prevHeight

\* C21: openWindow(id, ...) on an id that already has a record has exactly the
\* effect of restoreWindow(id) when that record is minimized and of
\* bringToFront(id) otherwise: the supplied title and geometry are ignored,
\* the record's title, geometry, maximized flag and snapshot are unchanged,
\* and the number of records is unchanged.
C21_OpenExisting ==
  (WDid("openWindow") /\ WasOpen) =>
    /\ Manager = IF WBefore[WPlace].minimized
                 THEN restoreWindow(wlast.before, wlast.id)
                 ELSE bringToFront(wlast.before, wlast.id)
    /\ Len(windows) = Len(WBefore)
    /\ SameButShown(windows[WPlace], WBefore[WPlace])

\* openWindow has just been called with another title and a geometry for a
\* window that was minimized and maximized
C21_Witness ==
  /\ WDid("openWindow") /\ WasOpen
  /\ WBefore[WPlace].minimized /\ WBefore[WPlace].maximized
  /\ wlast.title # WBefore[WPlace].title
  /\ wlast.options.x # Undefined /\ wlast.options.width # Undefined
  /\ wlast.options.width # WBefore[WPlace].width

\* ------------------------------------------------------------------ C22
\* C22: openWindow(id, ...) on an absent id appends exactly one record with
\* minimized = false, maximized = false, no saved snapshot, z-index equal to
\* the current global counter value (1000 for the first window of a fresh
\* manager, 1001 for the second) and, when no geometry is supplied,
\* x = y = 100 + 30 * (number of windows open before the call); the counter is
\* then incremented by one and all other records are unchanged.
C22_OpenNew ==
  (WDid("openWindow") /\ ~WasOpen) =>
    LET n == Len(WBefore)
        w == windows[n + 1]
    IN /\ Len(windows) = n + 1
       /\ \A j \in 1..n : windows[j] = WBefore[j]
       /\ w.id = wlast.id
       /\ ~w.minimized /\ ~w.maximized /\ NoSnapshot(w)
       /\ w.zIndex = wlast.before.nextZIndex
       /\ wlast.before = FreshManager => w.zIndex = 1000
       /\ (n = 1 /\ WBefore[1].zIndex = 1000 /\ wlast.before.nextZIndex = WBefore[1].zIndex + 1)
            => w.zIndex = 1001
       /\ wlast.options.x = Undefined => w.x = 100 + 30 * n
       /\ wlast.options.y = Undefined => w.y = 100 + 30 * n
       /\ nextZIndex = wlast.before.nextZIndex + 1

\* a third window has just been opened without a geometry, after the first
\* two were opened one after the other in a fresh manager
C22_Witness ==
  /\ WDid("openWindow") /\ ~WasOpen
  /\ wlast.options = NoOptions
  /\ Len(windows) = 3
  /\ windows[1].zIndex = 1000 /\ windows[2].zIndex = 1001 /\ windows[3].zIndex = 1002
  /\ windows[1].x = 100 /\ windows[2].x = 130 /\ windows[3].x = 160

\* ------------------------------------------------------------------ C23
\* the list without its element at place k (the list itself when k is 0)
WithoutPlace(ws, k) ==
  IF k = 0 THEN ws
  ELSE [j \in 1..(Len(ws) - 1) |-> IF j < k THEN ws[j] ELSE ws[j + 1]]

\* C23: closeWindow(id) removes the record with that id and changes no other
\* record; closing an absent id (including closing the same id twice) raises
\* no error and leaves the record list unchanged; after closeWindow, a later
\* openWindow(id) creates a fresh record that is not minimized and not
\* maximized.
C23_Close ==
  WDid("closeWindow") =>
    /\ windows = WithoutPlace(WBefore, WPlace)
    /\ \A i \in DOMAIN windows : windows[i].id # wlast.id
    /\ closeWindow(Manager, wlast.id).windows = windows
    /\ \A t \in Titles, o \in OpenOptions :
         LET reopened == openWindow(Manager, wlast.id, t, o).windows
             w == reopened[Len(reopened)]
         IN /\ Len(reopened) = Len(windows) + 1
            /\ w.id = wlast.id
            /\ ~w.minimized /\ ~w.maximized /\ NoSnapshot(w)

\* the first of three windows, minimized and maximized, has just been closed
C23_Witness ==
  /\ WDid("closeWindow") /\ WasOpen
  /\ Len(WBefore) = 3 /\ WPlace = 1
  /\ WBefore[1].minimized /\ WBefore[1].maximized
  /\ Len(windows) = 2

\* ------------------------------------------------------------------ C24
\* C24: minimizeWindow(id) sets minimized = true on the target record and
\* changes nothing else: the target's z-index, geometry, maximized flag and
\* snapshot, the global z counter and every other window's record are
\* unchanged.
C24_Minimize ==
  (WDid("minimizeWindow") /\ WasOpen) =>
    /\ OthersUnchanged
    /\ windows[WPlace].minimized
    /\ windows[WPlace] = [WBefore[WPlace] EXCEPT !.minimized = TRUE]
    /\ windows[WPlace].zIndex = WBefore[WPlace].zIndex
    /\ SameButShown(windows[WPlace], WBefore[WPlace])
    /\ nextZIndex = wlast.before.nextZIndex

\* the top-most of two windows, maximized and not minimized, has just been
\* minimized
C24_Witness ==
  /\ WDid("minimizeWindow") /\ WasOpen
  /\ Len(WBefore) = 2
  /\ ~WBefore[WPlace].minimized /\ WBefore[WPlace].maximized
  /\ \A j \in DOMAIN WBefore : WBefore[j].zIndex <= WBefore[WPlace].zIndex
  /\ windows[WPlace].minimized

\* ------------------------------------------------------------------ C25
\* C25: restoreWindow(id) on an open window sets minimized = false and gives
\* the window a z-index strictly greater than that of every other open
\* window, so a minimized window (not drawn) becomes visible again as the
\* top-most window; its geometry and maximized state are unchanged.
C25_Restore ==
  (WDid("restoreWindow") /\ WasOpen) =>
    /\ OthersUnchanged
    /\ ~windows[WPlace].minimized
    /\ Drawn(windows[WPlace])
    /\ OnTop(wlast.id)
    /\ \A j \in DOMAIN windows : j # WPlace => windows[WPlace].zIndex > windows[j].zIndex
    /\ SameButShown(windows[WPlace], WBefore[WPlace])

\* a minimized and maximized window, lowest of three, has just been restored
C25_Witness ==
  /\ WDid("restoreWindow") /\ WasOpen
  /\ Len(WBefore) = 3
  /\ WBefore[WPlace].minimized /\ ~Drawn(WBefore[WPlace]) /\ WBefore[WPlace].maximized
  /\ \A j \in DOMAIN WBefore : WBefore[j].zIndex >= WBefore[WPlace].zIndex
  /\ Drawn(windows[WPlace])

\* ------------------------------------------------------------------ C26
\* updatePosition or updateSize has just been called for an open window
DidUpdate == (WDid("updatePosition") \/ WDid("updateSize")) /\ WasOpen
\* the record with exactly the fields the call names set to its arguments
Updated(w) ==
  IF WDid("updatePosition") THEN [w EXCEPT !.x = wlast.a, !.y = wlast.b]
  ELSE [w EXCEPT !.width = wlast.a, !.height = wlast.b]

\* C26: updatePosition(id, x, y) and updateSize(id, w, h) are no-ops when the
\* window is maximized: while maximized is true the record's x, y, width and
\* height are not changed by these operations; on a non-maximized window they
\* set exactly the named fields and nothing else.
C26_UpdateGeometry ==
  DidUpdate =>
    /\ OthersUnchanged
    /\ nextZIndex = wlast.before.nextZIndex
    /\ IF WBefore[WPlace].maximized
       THEN /\ SameGeometry(windows[WPlace], WBefore[WPlace])
            /\ windows[WPlace] = WBefore[WPlace]
       ELSE windows[WPlace] = Updated(WBefore[WPlace])

\* what the code does: the named fields are set whether or not the window is
\* maximized, and nothing else changes
C26_UpdateWhateverMaximized ==
  DidUpdate =>
    /\ OthersUnchanged
    /\ nextZIndex = wlast.before.nextZIndex
    /\ windows[WPlace] = Updated(WBefore[WPlace])

\* ------------------------------------------------------------------ C27
\* an operation other than openWindow has just been called for an absent id
DidOnAbsent == ~WIdle /\ ~WDid("openWindow") /\ ~WasOpen

\* C27: every window manager operation other than openWindow, when called with
\* an id that has no record (closeWindow, minimizeWindow, restoreWindow,
\* bringToFront, toggleMaximize, updatePosition, updateSize), is a no-op: the
\* record list and the global next-z-index counter are both unchanged.
C27_AbsentNoOp ==
  DidOnAbsent =>
    /\ windows = WBefore
    /\ nextZIndex = wlast.before.nextZIndex

\* what the code does: the record list is unchanged, and the counter is
\* unchanged but by restoreWindow and bringToFront, which advance it by one
C27_AbsentKeepsRecords ==
  DidOnAbsent =>
    /\ windows = WBefore
    /\ nextZIndex = wlast.before.nextZIndex
                      + (IF WDid("restoreWindow") \/ WDid("bringToFront") THEN 1 ELSE 0)

\* ----------------------------------------------------- event bus vocabulary
BDid(op) == blast.op = op
\* the callbacks subscribed to an event, in the order they were subscribed
Subscribed(ev, event) == IF event \in DOMAIN ev THEN ev[event] ELSE <<>>
\* the callbacks the call in progress has invoked, in the order of the calls
Called == [i \in DOMAIN blast.log |-> blast.log[i].callback]
\* the call in progress was an emit, directly or from the settings
Published == BDid("emit") \/ BDid("setTheme") \/ BDid("setWallpaper")

\* ------------------------------------------------------------------ C28
\* C28: emit(event, payload) synchronously invokes, before it returns, every
\* callback currently subscribed to that event, once per subscription and in
\* the order the subscriptions were made, passing the payload; callbacks
\* subscribed only to other events and callbacks already unsubscribed are not
\* invoked.
C28_Publish ==
  BDid("emit") =>
    /\ Called = Subscribed(blast.before.events, blast.event)
    /\ \A i \in DOMAIN blast.log : blast.log[i].args = blast.args

\* what the code does: the same, as long as no callback changes the
\* subscriptions while the event is delivered
C28_PublishToUnchangedBus ==
  (BDid("emit") /\ events = blast.before.events) =>
    /\ Called = Subscribed(blast.before.events, blast.event)
    /\ \A i \in DOMAIN blast.log : blast.log[i].args = blast.args

\* ------------------------------------------------------------------ C29
\* setTheme or setWallpaper has just been called
DidSet == BDid("setTheme") \/ BDid("setWallpaper")
\* what getTheme() or getWallpaper() returned: the getter of the setter called
Got(theme, wallpaper) == IF BDid("setTheme") THEN theme ELSE wallpaper

\* C29: a settings change is stored before observers are notified:
\* setTheme(t) (and setWallpaper(w)) first persists the new value and then
\* publishes it, so every subscriber of the change event is called with the
\* new value and a getTheme()/getWallpaper() made inside any callback or
\* after the call returns that same value.
C29_StoredBeforeNotified ==
  DidSet =>
    /\ Called = Subscribed(blast.before.events, blast.event)
    /\ \A i \in DOMAIN blast.log :
         /\ blast.log[i].args = blast.args
         /\ Got(blast.log[i].theme, blast.log[i].wallpaper) = blast.args
    /\ Got(getTheme(settingsItem), getWallpaper(settingsItem)) = blast.args

\* what the code does: the value is in the item before the first callback
\* runs, every callback invoked gets the new value and reads what a getter
\* returns after the call; that is the new value but for the wallpaper '',
\* which getWallpaper() returns as null
C29_StoredThenPublished ==
  DidSet =>
    /\ settingsItem.present
    /\ Got(settingsItem.theme, settingsItem.wallpaper) = blast.args
    /\ \A i \in DOMAIN blast.log :
         /\ blast.log[i].args = blast.args
         /\ blast.log[i].theme = getTheme(settingsItem)
         /\ blast.log[i].wallpaper = getWallpaper(settingsItem)
    /\ Got(getTheme(settingsItem), getWallpaper(settingsItem)) = Or(blast.args, JsNull)
    /\ events = blast.before.events => Called = Subscribed(blast.before.events, blast.event)

\* ------------------------------------------------------------------ C30
\* the records the persisted item holds: none when there is no item
Persisted == IF storage.present THEN storage.windows ELSE <<>>

C31_PersistedCounter ==
  storage.present =>
    /\ "nextZIndex" \in DOMAIN storage
    /\ storage.nextZIndex = nextZIndex

\* what the code does: the item holds the record list and nothing else
C31_PersistedListOnly ==
  storage.present => DOMAIN storage = {"present", "windows"}

\* ------------------------------------------------------------------ C32
\* the record at place i was given its z-index by the call in progress: it is
\* new, or the record of its id had another z-index before the call
Assigned(i) ==
  \A j \in DOMAIN WBefore :
    WBefore[j].id = windows[i].id => WBefore[j].zIndex # windows[i].zIndex

\* C32: the global z counter never decreases and is always strictly greater
\* than the z-index of every open window; consequently a z-index value is
\* never assigned twice, even after the window that held it has been closed
\* and other windows are opened or focused.
C32_Counter ==
  /\ \A i \in DOMAIN windows : windows[i].zIndex < nextZIndex
  /\ ~WIdle =>
       /\ nextZIndex >= wlast.before.nextZIndex
       /\ \A i \in DOMAIN windows :
            Assigned(i) =>
              /\ windows[i].zIndex >= wlast.before.nextZIndex
              /\ \A j \in DOMAIN WBefore : WBefore[j].zIndex < windows[i].zIndex

\* a window has just been opened beside the first one, after an earlier call
\* had taken the z-index that follows the first one's
C32_Witness ==
  /\ WDid("openWindow") /\ ~WasOpen
  /\ Len(windows) = 2
  /\ Assigned(2)
  /\ windows[1].zIndex = FirstZIndex
  /\ windows[2].zIndex > FirstZIndex + 1
  /\ wlast.before.storage.present

\* ------------------------------------------------------------------ C33
\* C33: once a window with geometry g has been maximized, the next
\* toggleMaximize on it restores exactly g, whatever sequence of
\* minimizeWindow, restoreWindow, bringToFront, updatePosition, updateSize and
\* re-open calls on that id, and of any operations on other ids, happens in
\* between.
C33_RestoresSnapshot ==
  (WDid("toggleMaximize") /\ WasOpen /\ WBefore[WPlace].maximized) =>
    /\ ~windows[WPlace].maximized
    /\ Geometry(windows[WPlace]) = wlast.maximizedFrom[wlast.id]

\* a window maximized to 800 x 600, resized to nothing, minimized and raised
\* since, has just been restored to the geometry it was opened with
C33_Witness ==
  /\ WDid("toggleMaximize") /\ WasOpen /\ WBefore[WPlace].maximized
  /\ WBefore[WPlace].width = 0 /\ WBefore[WPlace].minimized
  /\ WBefore[WPlace].zIndex > FirstZIndex + 1
  /\ Len(windows) = 2
  /\ windows[WPlace].width = DefaultWidth /\ windows[WPlace].x \in {DefaultX, DefaultX + Stagger}

\* ------------------------------------------------------------------ C34
\* C34: in every reachable store state reached through operations with
\* separator-free names, every entry's path field equals the key it is stored
\* under, that key has no leading or trailing separator, and the entry's name
\* equals the final segment of its path (also after moveFile and renameFile
\* of the entry or of an ancestor folder).
C34_KeyConsistency ==
  \A k \in DOMAIN files :
    /\ files[k].path = k
    /\ Trim(k) = k
    /\ files[k].name = LastSegment(k)

\* what the code does: path and name are consistent with the key, and the
\* only keys with a separator at an end are the keys '/' + name written with
\* a parent made of separators only
C34_KeyConsistencyButSlashParent ==
  \A k \in DOMAIN files :
    /\ files[k].path = k
    /\ files[k].name = LastSegment(k)
    /\ SeparatorFree(files[k].name)
    /\ Trim(k) # k => k = <<Slash>> \o files[k].name

\* ------------------------------------------------------------------ C35
\* the folder moveFile was told to move into, as a key
TargetKey == Trim(last.arg2)

\* C35: a successful moveFile(source, targetFolder) never removes the target
\* folder: if an entry existed at targetFolder before the call it still exists
\* at the same path afterwards, including when targetFolder is the source
\* folder itself or one of its descendants.
C35_TargetKept ==
  (Did("moveFile") /\ last.ok /\ TargetKey \in DOMAIN pre) =>
    /\ TargetKey \in DOMAIN files
    /\ files[TargetKey] = pre[TargetKey]

\* what the code does: the target is kept unless it is the source folder or
\* lies inside it, where it is re-keyed with the source
C35_TargetKeptOutsideSource ==
  (Did("moveFile") /\ last.ok /\ TargetKey \in DOMAIN pre
     /\ TargetKey # SourceKey /\ ~Under(TargetKey, SourceKey)) =>
    /\ TargetKey \in DOMAIN files
    /\ files[TargetKey] = pre[TargetKey]

\* ------------------------------------------------------------------ C36
\* how many subscriptions of the callback a list holds
Count(callbacks, callback) ==
  Cardinality({i \in DOMAIN callbacks : callbacks[i] = callback})
\* the lists of the emitted event when the emit started and now
SubscribedBefore == Subscribed(blast.before.events, blast.event)
SubscribedAfter == Subscribed(events, blast.event)
\* a callback unsubscribed one from the event while it was delivered
Unsubscribed == Len(SubscribedAfter) < Len(SubscribedBefore)

\* C36: if a callback unsubscribes itself (or another callback) from the event
\* while emit(event) is delivering, every other callback that was subscribed
\* when emit started and has not itself been unsubscribed is still invoked
\* exactly once during that emit.
C36_ReentrantDelivery ==
  (BDid("emit") /\ Unsubscribed) =>
    \A c \in Callbacks :
      Count(SubscribedAfter, c) = Count(SubscribedBefore, c) =>
        Count(Called, c) = Count(SubscribedBefore, c)

\* what the code does: nothing is invoked that was not subscribed or more
\* often than it was subscribed, and every unsubscription during the delivery
\* costs at most one invocation
C36_AtMostOneLostPerRemoval ==
  BDid("emit") =>
    /\ \A c \in Callbacks : Count(Called, c) <= Count(SubscribedBefore, c)
    /\ Len(Called) >= Len(SubscribedAfter)
    /\ Len(Called) <= Len(SubscribedBefore)

\* ------------------------------------------------------ tab store vocabulary
\* the call in progress on the tab store is op
TDid(op) == tlast.op = op
\* the tab the call in progress names, in the store before the call and now
\* (0: there is no such tab)
TWasAt == FindTab(tlast.before.tabs, tlast.id)
TPlace == FindTab(tabs, tlast.id)
\* the tab with this id in a store
TabOf(st, id) == st.tabs[FindTab(st.tabs, id)]
\* the url and the index of a tab
Shown(tab) == <<tab.url, tab.historyIndex>>

\* C37: for every browser tab and any sequence of setUrl, back and forward,
\* 0 <= historyIndex < length(history) and url = history[historyIndex]; back at
\* index 0 and forward at the last index change nothing; setUrl discards every
\* entry after historyIndex before it appends; back followed by forward, and
\* forward followed by back, when each moves, returns to the same url and index.
C37_TabHistory ==
  tload.store = "browser" =>
    /\ \A i \in DOMAIN tabs :
         /\ 0 <= tabs[i].historyIndex
         /\ tabs[i].historyIndex < Len(tabs[i].history)
         /\ tabs[i].url = tabs[i].history[tabs[i].historyIndex + 1]
         /\ tabs[i].historyIndex > 0 =>
              Shown(TabOf(forward(back(Store, tabs[i].id), tabs[i].id), tabs[i].id))
                = Shown(tabs[i])
         /\ tabs[i].historyIndex < Len(tabs[i].history) - 1 =>
              Shown(TabOf(back(forward(Store, tabs[i].id), tabs[i].id), tabs[i].id))
                = Shown(tabs[i])
    /\ (TDid("back") /\ TWasAt # 0 /\ tlast.before.tabs[TWasAt].historyIndex = 0) =>
         Store = tlast.before
    /\ (TDid("forward") /\ TWasAt # 0
          /\ tlast.before.tabs[TWasAt].historyIndex
               = Len(tlast.before.tabs[TWasAt].history) - 1) =>
         Store = tlast.before
    /\ (TDid("setUrl") /\ TWasAt # 0) =>
         /\ TPlace = TWasAt
         /\ tabs[TPlace].history
              = Append(SubSeq(tlast.before.tabs[TWasAt].history, 1,
                              tlast.before.tabs[TWasAt].historyIndex + 1), tlast.arg)
         /\ tabs[TPlace].historyIndex = tlast.before.tabs[TWasAt].historyIndex + 1
         /\ tabs[TPlace].url = tlast.arg

\* setUrl has replaced the entries a back had left ahead of the index, in a
\* tab where back and forward both move
C37_Witness ==
  /\ tload.store = "browser"
  /\ TDid("setUrl")
  /\ TWasAt # 0
  /\ tlast.before.tabs[TWasAt].historyIndex = 1
  /\ Len(tlast.before.tabs[TWasAt].history) = 3
  /\ tabs[TPlace].history = <<"", "u", "v">>
  /\ tlast.before.tabs[TWasAt].history = <<"", "u", "u">>

\* every localforage write that was started has completed, in a run that
\* interleaves newTab, closeTab and setUrl with setActiveTab
Settled == tload.race /\ TIdle /\ pending = <<>>

\* C38: for the browser and the terminal tab store, once every pending
\* persistence write has completed, the persisted active-tab id equals the
\* in-memory activeTabId and the persisted tab list equals the in-memory tab
\* list, for every interleaving of newTab, closeTab and setUrl (which start
\* saveTabs) with setActiveTab (which writes the active id directly).
C38_PersistedAfterWrites ==
  Settled =>
    /\ forage.activeTabId = activeTabId
    /\ forage.tabs = tabs

\* what the code does keep: the tab list is written first by every saveTabs,
\* with the list of the moment of the call, so the persisted list is the
\* in-memory one once the writes are done
C38_PersistedTabsAfterWrites ==
  Settled => forage.tabs = tabs

\* the commands of the tab the call in progress names, before the call
TCommandsBefore == tlast.before.tabs[TWasAt].commandHistory
\* the most recent command of a tab
LastCommand(tab) == tab.commandHistory[Len(tab.commandHistory)]

\* C39: for every terminal tab, commandHistory never contains two equal
\* adjacent commands, historyIndex is always -1 or a valid index into
\* commandHistory, and after every addCommandToHistory call on an existing tab
\* historyIndex is -1, so that the next 'up' navigation returns the most
\* recent command.
C39_CommandHistory ==
  tload.store = "terminal" =>
    /\ \A i \in DOMAIN tabs :
         /\ \A j \in 1..(Len(tabs[i].commandHistory) - 1) :
              tabs[i].commandHistory[j] # tabs[i].commandHistory[j + 1]
         /\ \/ tabs[i].historyIndex = -1
            \/ /\ 0 <= tabs[i].historyIndex
               /\ tabs[i].historyIndex < Len(tabs[i].commandHistory)
    /\ (TDid("addCommandToHistory") /\ TWasAt # 0) =>
         /\ tabs[TPlace].historyIndex = -1
         /\ navigateHistory(Store, tlast.id, "up").out = Str(LastCommand(tabs[TPlace]))

\* what the code does keep: no two equal adjacent commands, an index that is
\* -1 or within the commands, and the reset of the index by every
\* addCommandToHistory whose command differs from the most recent one; a
\* command equal to the most recent one leaves the whole store as it was
C39_CommandHistoryResetByNewCommand ==
  tload.store = "terminal" =>
    /\ \A i \in DOMAIN tabs :
         /\ \A j \in 1..(Len(tabs[i].commandHistory) - 1) :
              tabs[i].commandHistory[j] # tabs[i].commandHistory[j + 1]
         /\ \/ tabs[i].historyIndex = -1
            \/ /\ 0 <= tabs[i].historyIndex
               /\ tabs[i].historyIndex < Len(tabs[i].commandHistory)
    /\ (TDid("addCommandToHistory") /\ TWasAt # 0) =>
         IF TCommandsBefore # <<>> /\ TCommandsBefore[Len(TCommandsBefore)] = tlast.arg
         THEN Store = tlast.before
         ELSE /\ tabs[TPlace].commandHistory = Append(TCommandsBefore, tlast.arg)
              /\ tabs[TPlace].historyIndex = -1
              /\ navigateHistory(Store, tlast.id, "up").out = Str(tlast.arg)

====
